---- MODULE Spec2Model ----
(***************************************************************************)
(* Model of the profile-collection bot: the form conversation              *)
(* (main.py), the SQLite primary store (sqlite_manager.py), the            *)
(* PostgreSQL mirror (database.py) and the Excel backup                    *)
(* (excel_manager.py), with the three synchronisation commands.            *)
(*                                                                         *)
(* A message text is a sequence of one-character strings, so that strip,   *)
(* split, the command filter and the date pattern are computed as the      *)
(* code computes them.                                                     *)
(***************************************************************************)
EXTENDS Integers, Sequences, FiniteSets, TLC

\* ------------------------------------------------------------------ bounds

\* Largest number of rows the primary store may hold in the model.
MaxUsers == 2
\* Largest number of rows the mirror store may hold in the model.
MaxPg == 2
\* Largest number of data rows the backup sheet may hold in the model.
MaxRows == 2

\* ------------------------------------------------------------------- texts

T_start == <<"/", "s", "t", "a", "r", "t">>
T_form == <<"/", "f", "o", "r", "m">>
T_cancel == <<"/", "c", "a", "n", "c", "e", "l">>
T_cancel_now == <<"/", "c", "a", "n", "c", "e", "l", " ", "n", "o", "w">>
T_sync_pg == <<"/", "s", "y", "n", "c", "_", "p", "g">>
T_sync_excel == <<"/", "s", "y", "n", "c", "_", "e", "x", "c", "e", "l">>
T_sync_backup == <<"/", "s", "y", "n", "c", "_", "b", "a", "c", "k", "u", "p">>
T_clear_backup == <<"/", "c", "l", "e", "a", "r", "_", "b", "a", "c", "k", "u", "p">>
T_stats == <<"/", "s", "t", "a", "t", "s">>
T_help == <<"/", "h", "e", "l", "p">>
T_Ivan == <<"I", "v", "a", "n">>
T_IvanPetrov == <<"I", "v", "a", "n", " ", "P", "e", "t", "r", "o", "v">>
T_IvanPetrovPadded ==
    <<" ", " ", "I", "v", "a", "n", " ", " ", " ", "P", "e", "t", "r", "o", "v", " ", " ">>
T_AnnaLee == <<"A", "n", "n", "a", " ", "L", "e", "e">>
T_15_05_1990 == <<"1", "5", ".", "0", "5", ".", "1", "9", "9", "0">>
T_29_02_2001 == <<"2", "9", ".", "0", "2", ".", "2", "0", "0", "1">>
T_31_12_2000 == <<"3", "1", ".", "1", "2", ".", "2", "0", "0", "0">>
T_2000_12_31 == <<"2", "0", "0", "0", ".", "1", "2", ".", "3", "1">>
T_spaces == <<" ", " ", " ">>
T_IvanPadded == <<" ", "I", "v", "a", "n", " ">>
T_A_tab_B == <<"A", "\t", "B">>
T_01_03_2001 == <<"0", "1", ".", "0", "3", ".", "2", "0", "0", "1">>
T_02_03_2001 == <<"0", "2", ".", "0", "3", ".", "2", "0", "0", "1">>
T_15_05_1990_Padded == <<" ", "1", "5", ".", "0", "5", ".", "1", "9", "9", "0", "\n">>
T_29_02_2000 == <<"2", "9", ".", "0", "2", ".", "2", "0", "0", "0">>
T_29_02_1900 == <<"2", "9", ".", "0", "2", ".", "1", "9", "0", "0">>
T_31_02_2999 == <<"3", "1", ".", "0", "2", ".", "2", "9", "9", "9">>
T_31_12_2999 == <<"3", "1", ".", "1", "2", ".", "2", "9", "9", "9">>
T_32_01_2000 == <<"3", "2", ".", "0", "1", ".", "2", "0", "0", "0">>
T_00_00_0000 == <<"0", "0", ".", "0", "0", ".", "0", "0", "0", "0">>
T_1_3_2001 == <<"1", ".", "3", ".", "2", "0", "0", "1">>
T_31_12_00 == <<"3", "1", ".", "1", "2", ".", "0", "0">>
T_15_05_1990_Slash == <<"1", "5", "/", "0", "5", "/", "1", "9", "9", "0">>

\* The characters str.strip() and str.split() treat as white space.
Whitespace == {" ", "\t", "\n"}

RECURSIVE LStrip(_)
LStrip(s) ==
    IF s # <<>> /\ Head(s) \in Whitespace THEN LStrip(Tail(s)) ELSE s

RECURSIVE RStrip(_)
RStrip(s) ==
    IF s # <<>> /\ s[Len(s)] \in Whitespace
    THEN RStrip(SubSeq(s, 1, Len(s) - 1))
    ELSE s

\* str.strip()
Strip(s) == RStrip(LStrip(s))

\* The first white-space-free run of s (s does not start with white space).
RECURSIVE TakeToken(_)
TakeToken(s) ==
    IF s = <<>> \/ Head(s) \in Whitespace
    THEN <<>>
    ELSE <<Head(s)>> \o TakeToken(Tail(s))

\* str.split() without arguments: the runs between white space.
RECURSIVE Split(_)
Split(s) ==
    LET t == LStrip(s) IN
    IF t = <<>>
    THEN <<>>
    ELSE LET tok == TakeToken(t) IN
         <<tok>> \o Split(SubSeq(t, Len(tok) + 1, Len(t)))

\* s up to the first occurrence of character c (s.split(c)[0]).
RECURSIVE UpTo(_, _)
UpTo(s, c) ==
    IF s = <<>> \/ Head(s) = c THEN <<>> ELSE <<Head(s)>> \o UpTo(Tail(s), c)

\* telebot.util.extract_command: the command of a text that starts with "/",
\* without the slash and without a "@bot" suffix; <<>> when there is none.
ExtractCommand(text) ==
    IF text # <<>> /\ Head(text) = "/"
    THEN Tail(UpTo(Split(text)[1], "@"))
    ELSE <<>>

\* Every message text the specifications below send.
AllTexts ==
    {T_start, T_form, T_cancel, T_cancel_now, T_sync_pg, T_sync_excel, T_sync_backup,
     T_clear_backup, T_stats, T_help, T_Ivan, T_IvanPetrov, T_IvanPetrovPadded, T_AnnaLee,
     T_15_05_1990, T_29_02_2001, T_31_12_2000, T_2000_12_31,
     T_spaces, T_IvanPadded, T_A_tab_B,
     T_01_03_2001, T_02_03_2001, T_15_05_1990_Padded, T_29_02_2000, T_29_02_1900,
     T_31_02_2999, T_31_12_2999, T_32_01_2000, T_00_00_0000, T_1_3_2001, T_31_12_00,
     T_15_05_1990_Slash}

\* extract_command of each text of the model (computed once).
CommandOf == [text \in AllTexts |-> ExtractCommand(text)]

\* The commands=[...] filter of bot.message_handler.
IsCommand(text, cmd) == CommandOf[text] = Tail(cmd)

\* ------------------------------------------------------------------- dates

Digits == {"0", "1", "2", "3", "4", "5", "6", "7", "8", "9"}

DigitVal(c) ==
    CASE c = "0" -> 0 [] c = "1" -> 1 [] c = "2" -> 2 [] c = "3" -> 3
      [] c = "4" -> 4 [] c = "5" -> 5 [] c = "6" -> 6 [] c = "7" -> 7
      [] c = "8" -> 8 [] c = "9" -> 9

DigitChar(n) ==
    CASE n = 0 -> "0" [] n = 1 -> "1" [] n = 2 -> "2" [] n = 3 -> "3"
      [] n = 4 -> "4" [] n = 5 -> "5" [] n = 6 -> "6" [] n = 7 -> "7"
      [] n = 8 -> "8" [] n = 9 -> "9"

\* int() of a run of digits.
RECURSIVE ToInt(_)
ToInt(s) ==
    IF s = <<>> THEN 0
    ELSE 10 * ToInt(SubSeq(s, 1, Len(s) - 1)) + DigitVal(s[Len(s)])

\* re.match(r'^(\d{2})\.(\d{2})\.(\d{4})$', text)
MatchDate(text) ==
    /\ Len(text) = 10
    /\ text[3] = "."
    /\ text[6] = "."
    /\ \A i \in {1, 2, 4, 5, 7, 8, 9, 10} : text[i] \in Digits

\* day, month, year = map(int, match.groups())
DayOf(text) == ToInt(SubSeq(text, 1, 2))
MonthOf(text) == ToInt(SubSeq(text, 4, 5))
YearOf(text) == ToInt(SubSeq(text, 7, 10))

IsLeap(y) == y % 4 = 0 /\ (y % 100 # 0 \/ y % 400 = 0)

DaysInMonth(y, m) ==
    IF m = 2 THEN (IF IsLeap(y) THEN 29 ELSE 28)
    ELSE IF m \in {4, 6, 9, 11} THEN 30 ELSE 31

\* datetime(year, month, day) does not raise ValueError.
IsRealDate(y, m, d) ==
    /\ y >= 1 /\ y <= 9999
    /\ m >= 1 /\ m <= 12
    /\ d >= 1 /\ d <= DaysInMonth(y, m)

\* The reading of datetime.now() in the model: <<year, month, day, hour, minute>>.
Now == <<2001, 3, 1, 12, 0>>

\* a > b for two tuples of the same length, compared as Python compares datetimes.
RECURSIVE After(_, _)
After(a, b) ==
    IF a = <<>> THEN FALSE
    ELSE IF Head(a) # Head(b) THEN Head(a) > Head(b)
    ELSE After(Tail(a), Tail(b))

\* Mutant of InFuture: the end of the day, not its start, is compared with now,
\* so that today's date counts as being in the future.
InFuture_EndOfDay(y, m, d) == After(<<y, m, d, 23, 59>>, Now)

\* birthday_date > datetime.now(), birthday_date being midnight of the day.
InFuture(y, m, d) == After(<<y, m, d, 0, 0>>, Now)

\* The decimal digits of n, at least w of them (zero padded).
RECURSIVE Dec(_, _)
Dec(n, w) ==
    IF n < 10 /\ w <= 1 THEN <<DigitChar(n)>>
    ELSE Dec(n \div 10, w - 1) \o <<DigitChar(n % 10)>>

\* Mutant of Strftime: the format is '%Y-%d-%m'.
Strftime_DayMonth(y, m, d) == Dec(y, 4) \o <<"-">> \o Dec(d, 2) \o <<"-">> \o Dec(m, 2)

\* birthday_date.strftime('%Y-%m-%d')
Strftime(y, m, d) == Dec(y, 4) \o <<"-">> \o Dec(m, 2) \o <<"-">> \o Dec(d, 2)

\* ------------------------------------------------------------------- state

\* A conversation is keyed by <<user id, chat id>>.
Keys == {<<1, 1>>, <<2, 2>>}

\* The worker threads of the bot (telebot.TeleBot runs handlers on a pool).
Threads == {1, 2}

NoState == "none"
ENTER_FULLNAME == "ENTER_FULLNAME"
ENTER_BIRTHDAY == "ENTER_BIRTHDAY"

\* The session's data dictionary without a 'fullname' entry.
NoData == <<>>

NULL == "NULL"

\* A handler frame of a thread that is handling nothing.
Idle == [pc |-> "idle"]

VARIABLES
    users,      \* the rows of the SQLite table users, in id order
    pg,         \* the rows of the PostgreSQL table users, in id order
    pg_src,     \* history: for each row of pg, the SQLite id it was copied from
    worksheet,  \* the data rows of the workbook's sheet "users" (in memory)
    file,       \* the data rows of the workbook as last saved to backup.xlsx
    disk_ok,    \* whether workbook.save(file_path) can write backup.xlsx now
    state,      \* the bot's state storage: the state of each conversation
    data,       \* the bot's state storage: the 'fullname' of each conversation
    frame,      \* per thread: the position and the locals of the running handler
    reply       \* the last reply the bot sent

vars == <<users, pg, pg_src, worksheet, file, disk_ok, state, data, frame, reply>>

stores == <<users, pg, pg_src, worksheet, file, disk_ok>>
session == <<state, data>>

Reply(k, kind, body) == [to |-> k, kind |-> kind, body |-> body]

Init ==
    /\ users = <<>>
    /\ pg = <<>>
    /\ pg_src = <<>>
    /\ worksheet = <<>>
    /\ file = <<>>
    /\ disk_ok = TRUE
    /\ state = [k \in Keys |-> NoState]
    /\ data = [k \in Keys |-> NoData]
    /\ frame = [t \in Threads |-> Idle]
    /\ reply = Reply(<<0, 0>>, "none", <<>>)

\* ---------------------------------------------------------------- dispatch

\* Mutant of Dispatch: cancel_form is registered before the two state handlers,
\* so that /cancel reaches it in a conversation that is filling the form.
Dispatch_CancelFirst(k, text) ==
    IF IsCommand(text, <<"/", "s", "t", "a", "r", "t">>) THEN "start_command"
    ELSE IF IsCommand(text, T_form) THEN "form_command"
    ELSE IF IsCommand(text, T_cancel) /\ state[k] \in {ENTER_FULLNAME, ENTER_BIRTHDAY}
         THEN "cancel_form"
    ELSE IF state[k] = ENTER_FULLNAME THEN "handle_fullname"
    ELSE IF state[k] = ENTER_BIRTHDAY THEN "handle_birthday"
    ELSE "echo_all"

\* Mutant of Dispatch: the two state handlers are registered after the command
\* handlers, so that a command sent while the form is open runs its handler.
Dispatch_CommandsFirst(k, text) ==
    IF IsCommand(text, <<"/", "s", "t", "a", "r", "t">>) THEN "start_command"
    ELSE IF IsCommand(text, T_form) THEN "form_command"
    ELSE IF IsCommand(text, T_cancel) /\ state[k] \in {ENTER_FULLNAME, ENTER_BIRTHDAY}
         THEN "cancel_form"
    ELSE IF IsCommand(text, <<"/", "s", "t", "a", "t", "u", "s">>) THEN "status_command"
    ELSE IF IsCommand(text, <<"/", "s", "t", "a", "t", "s">>) THEN "stats_command"
    ELSE IF IsCommand(text, <<"/", "b", "a", "c", "k", "u", "p">>) THEN "backup_command"
    ELSE IF IsCommand(text, T_sync_pg) THEN "sync_pg_command"
    ELSE IF IsCommand(text, T_sync_excel) THEN "sync_excel_command"
    ELSE IF IsCommand(text, T_clear_backup) THEN "clear_backup_command"
    ELSE IF IsCommand(text, T_sync_backup) THEN "sync_backup_command"
    ELSE IF IsCommand(text, T_help) THEN "help_command"
    ELSE IF state[k] = ENTER_FULLNAME THEN "handle_fullname"
    ELSE IF state[k] = ENTER_BIRTHDAY THEN "handle_birthday"
    ELSE "echo_all"

\* The first handler, in registration order, whose filters accept the message
\* (telebot runs that one and no other).
Dispatch(k, text) ==
    IF IsCommand(text, <<"/", "s", "t", "a", "r", "t">>) THEN "start_command"
    ELSE IF IsCommand(text, T_form) THEN "form_command"
    ELSE IF state[k] = ENTER_FULLNAME THEN "handle_fullname"
    ELSE IF state[k] = ENTER_BIRTHDAY THEN "handle_birthday"
    ELSE IF IsCommand(text, T_cancel) /\ state[k] \in {ENTER_FULLNAME, ENTER_BIRTHDAY}
         THEN "cancel_form"
    ELSE IF IsCommand(text, <<"/", "s", "t", "a", "t", "u", "s">>) THEN "status_command"
    ELSE IF IsCommand(text, <<"/", "s", "t", "a", "t", "s">>) THEN "stats_command"
    ELSE IF IsCommand(text, <<"/", "b", "a", "c", "k", "u", "p">>) THEN "backup_command"
    ELSE IF IsCommand(text, T_sync_pg) THEN "sync_pg_command"
    ELSE IF IsCommand(text, T_sync_excel) THEN "sync_excel_command"
    ELSE IF IsCommand(text, T_clear_backup) THEN "clear_backup_command"
    ELSE IF IsCommand(text, T_sync_backup) THEN "sync_backup_command"
    ELSE IF IsCommand(text, T_help) THEN "help_command"
    ELSE "echo_all"

\* bot.set_state: an existing entry keeps its data, a new one starts empty.
SetState(k, s) ==
    /\ state' = [state EXCEPT ![k] = s]
    /\ data' = IF state[k] = NoState THEN [data EXCEPT ![k] = NoData] ELSE data

\* Mutant of DeleteState: the storage is emptied, every conversation goes.
DeleteState_All(k) ==
    /\ state' = [j \in Keys |-> NoState]
    /\ data' = [j \in Keys |-> NoData]

\* bot.delete_state: the entry goes, state and data.
DeleteState(k) ==
    /\ state' = [state EXCEPT ![k] = NoState]
    /\ data' = [data EXCEPT ![k] = NoData]


\* ----------------------------------------------------------- primary store

\* SQLiteManager.get_all_users: SELECT * FROM users ORDER BY id.
GetAllUsers == users

\* Mutant of GetUnsyncedUsers: the SELECT has no WHERE clause.
GetUnsyncedUsers_NoWhere == users

\* SQLiteManager.get_unsynced_users: the rows with synced_with_pg = FALSE, by id.
GetUnsyncedUsers == SelectSeq(users, LAMBDA u : ~u.synced_with_pg)

\* The row SQLiteManager.add_user inserts: the next AUTOINCREMENT id, the given
\* fields, synced_with_pg FALSE and synced_at NULL.
NewRow(user_data) ==
    [id |-> Len(users) + 1,
     full_name |-> user_data.full_name,
     summ |-> user_data.summ,
     card_number |-> user_data.card_number,
     birthday |-> user_data.birthday,
     synced_with_pg |-> FALSE,
     synced_at |-> NULL]

\* Mutant of SqliteAddUser: the INSERT leaves the birthday column out.
SqliteAddUser_NoBirthday(user_data) ==
    Append(users, [NewRow(user_data) EXCEPT !.birthday = <<>>])

\* SQLiteManager.add_user: the table after a committed INSERT.
SqliteAddUser(user_data) == Append(users, NewRow(user_data))

\* Mutant of MarkUsersSynced: the UPDATE assigns "id IN (...)" to the flag of
\* every row, so that a row outside the list is set back to FALSE.
MarkUsersSynced_Assign(user_ids) ==
    [i \in 1..Len(users) |->
        [users[i] EXCEPT !.synced_with_pg = (users[i].id \in user_ids)]]

\* Mutant of MarkUsersSynced: the UPDATE has no WHERE clause.
MarkUsersSynced_NoWhere(user_ids) ==
    [i \in 1..Len(users) |->
        [users[i] EXCEPT !.synced_with_pg = TRUE, !.synced_at = "CURRENT_TIMESTAMP"]]

\* Mutant of MarkUsersSynced: the UPDATE sets synced_at and leaves the flag.
MarkUsersSynced_StampOnly(user_ids) ==
    [i \in 1..Len(users) |->
        IF users[i].id \in user_ids
        THEN [users[i] EXCEPT !.synced_at = "CURRENT_TIMESTAMP"]
        ELSE users[i]]

\* SQLiteManager.mark_users_synced: the table after a committed UPDATE.
MarkUsersSynced(user_ids) ==
    [i \in 1..Len(users) |->
        IF users[i].id \in user_ids
        THEN [users[i] EXCEPT !.synced_with_pg = TRUE, !.synced_at = "CURRENT_TIMESTAMP"]
        ELSE users[i]]

Max(S) == CHOOSE x \in S : \A y \in S : y <= x

\* Mutant of NextCardNumber: the "+ 1" is missing.
NextCardNumber_NoIncrement(all_users) ==
    LET existing_card_numbers ==
            {all_users[i].card_number : i \in {j \in 1..Len(all_users) :
                                                 all_users[j].card_number # 0}}
    IN IF existing_card_numbers # {} THEN Max(existing_card_numbers) ELSE 1

\* handle_birthday: the card number for the new record, from the rows read.
NextCardNumber(all_users) ==
    LET existing_card_numbers ==
            {all_users[i].card_number : i \in {j \in 1..Len(all_users) :
                                                 all_users[j].card_number # 0}}
    IN IF existing_card_numbers # {} THEN Max(existing_card_numbers) + 1 ELSE 1

\* ------------------------------------------------------------ form handlers

\* The number of handle_birthday calls that have read the table and not yet inserted.
InFlightAdds == Cardinality({t \in Threads : frame[t].pc = "hb_add"})

\* form_command: /form starts the conversation.
FormCommand(t, k, text) ==
    /\ frame[t] = Idle
    /\ Dispatch(k, text) = "form_command"
    /\ reply' = Reply(k, "ask_name", <<>>)
    /\ SetState(k, ENTER_FULLNAME)
    /\ UNCHANGED <<stores, frame>>

\* Mutant of NameAccepted: the test is "< 1", so that one word is enough.
NameAccepted_OneWord(text) ==
    LET fullname == Strip(text) IN
    ~(fullname = <<>> \/ Len(Split(fullname)) < 1)

\* The validation of handle_fullname: at least two words after strip().
NameAccepted(text) ==
    LET fullname == Strip(text) IN
    ~(fullname = <<>> \/ Len(Split(fullname)) < 2)

\* Mutant of HandleFullname: a rejected name ends the conversation.
HandleFullname_EndOnInvalid(t, k, text) ==
    /\ frame[t] = Idle
    /\ Dispatch(k, text) = "handle_fullname"
    /\ IF ~NameAccepted(text)
       THEN /\ reply' = Reply(k, "name_invalid", <<>>)
            /\ DeleteState(k)
       ELSE /\ data' = [data EXCEPT ![k] = Strip(text)]
            /\ reply' = Reply(k, "ask_date", <<>>)
            /\ state' = [state EXCEPT ![k] = ENTER_BIRTHDAY]
    /\ UNCHANGED <<stores, frame>>

\* Mutant of HandleFullname: a name already in the storage of the conversation
\* is kept, the new one is dropped.
HandleFullname_KeepFirstName(t, k, text) ==
    /\ frame[t] = Idle
    /\ Dispatch(k, text) = "handle_fullname"
    /\ IF ~NameAccepted(text)
       THEN /\ reply' = Reply(k, "name_invalid", <<>>)
            /\ UNCHANGED session
       ELSE /\ data' = [data EXCEPT ![k] = IF data[k] = NoData THEN Strip(text) ELSE data[k]]
            /\ reply' = Reply(k, "ask_date", <<>>)
            /\ state' = [state EXCEPT ![k] = ENTER_BIRTHDAY]
    /\ UNCHANGED <<stores, frame>>

\* handle_fullname: the text of a conversation in ENTER_FULLNAME.
HandleFullname(t, k, text) ==
    /\ frame[t] = Idle
    /\ Dispatch(k, text) = "handle_fullname"
    /\ IF ~NameAccepted(text)
       THEN /\ reply' = Reply(k, "name_invalid", <<>>)
            /\ UNCHANGED session
       ELSE /\ data' = [data EXCEPT ![k] = Strip(text)]
            /\ reply' = Reply(k, "ask_date", <<>>)
            /\ state' = [state EXCEPT ![k] = ENTER_BIRTHDAY]
    /\ UNCHANGED <<stores, frame>>

\* The three date checks of handle_birthday, in their order: the pattern, the
\* calendar, the future.
DateAccepted(text) ==
    LET birthday_text == Strip(text) IN
    /\ MatchDate(birthday_text)
    /\ IsRealDate(YearOf(birthday_text), MonthOf(birthday_text), DayOf(birthday_text))
    /\ ~InFuture(YearOf(birthday_text), MonthOf(birthday_text), DayOf(birthday_text))

\* handle_birthday up to the read of the table: the three date checks, the
\* stored name, the rows read and the card number computed from them.
HandleBirthdayRead(t, k, text) ==
    /\ frame[t] = Idle
    /\ Dispatch(k, text) = "handle_birthday"
    /\ LET birthday_text == Strip(text)
           day == DayOf(birthday_text)
           month == MonthOf(birthday_text)
           year == YearOf(birthday_text)
       IN IF ~MatchDate(birthday_text)
          THEN /\ reply' = Reply(k, "date_format", <<>>)
               /\ UNCHANGED <<session, frame>>
          ELSE IF ~IsRealDate(year, month, day)
          THEN /\ reply' = Reply(k, "date_impossible", <<>>)
               /\ UNCHANGED <<session, frame>>
          ELSE IF InFuture(year, month, day)
          THEN /\ reply' = Reply(k, "date_future", <<>>)
               /\ UNCHANGED <<session, frame>>
          ELSE IF data[k] = NoData
          THEN /\ reply' = Reply(k, "data_error", <<>>)
               /\ DeleteState(k)
               /\ UNCHANGED frame
          ELSE /\ Len(users) + InFlightAdds < MaxUsers
               /\ frame' = [frame EXCEPT ![t] =
                      [pc |-> "hb_add",
                       key |-> k,
                       user_data |->
                          [full_name |-> data[k],
                           summ |-> 0,
                           card_number |-> NextCardNumber(GetAllUsers),
                           birthday |-> Strftime(year, month, day)]]]
               /\ UNCHANGED <<session, reply>>
    /\ UNCHANGED stores

\* Mutant of HandleBirthdayAdd: bot.delete_state is inside the branch of the
\* successful insert, so that a failed insert leaves the conversation open.
HandleBirthdayAdd_KeepOnFailure(t) ==
    /\ frame[t].pc = "hb_add"
    /\ \E inserted \in BOOLEAN :
          IF inserted
          THEN /\ users' = SqliteAddUser(frame[t].user_data)
               /\ reply' = Reply(frame[t].key, "saved", <<frame[t].user_data.card_number>>)
               /\ DeleteState(frame[t].key)
          ELSE /\ users' = users
               /\ reply' = Reply(frame[t].key, "save_failed", <<>>)
               /\ UNCHANGED session
    /\ frame' = [frame EXCEPT ![t] = Idle]
    /\ UNCHANGED <<pg, pg_src, worksheet, file, disk_ok>>

\* Mutant of HandleBirthdayAdd: the new record is written through to the
\* mirror when the form ends.
HandleBirthdayAdd_WriteThrough(t) ==
    /\ frame[t].pc = "hb_add"
    /\ \E inserted \in BOOLEAN :
          IF inserted
          THEN /\ users' = SqliteAddUser(frame[t].user_data)
               /\ reply' = Reply(frame[t].key, "saved", <<frame[t].user_data.card_number>>)
               /\ IF Len(pg) < MaxPg
                  THEN /\ pg' = Append(pg, [id |-> Len(pg) + 1,
                                             full_name |-> frame[t].user_data.full_name,
                                             summ |-> frame[t].user_data.summ,
                                             card_number |-> frame[t].user_data.card_number,
                                             birthday |-> frame[t].user_data.birthday])
                       /\ pg_src' = Append(pg_src, Len(users) + 1)
                  ELSE UNCHANGED <<pg, pg_src>>
          ELSE /\ users' = users
               /\ reply' = Reply(frame[t].key, "save_failed", <<>>)
               /\ UNCHANGED <<pg, pg_src>>
    /\ DeleteState(frame[t].key)
    /\ frame' = [frame EXCEPT ![t] = Idle]
    /\ UNCHANGED <<worksheet, file, disk_ok>>

\* handle_birthday from add_user on: the insert (which returns an id, or None
\* on sqlite3.Error), the reply and the end of the conversation.
HandleBirthdayAdd(t) ==
    /\ frame[t].pc = "hb_add"
    /\ \E inserted \in BOOLEAN :
          IF inserted
          THEN /\ users' = SqliteAddUser(frame[t].user_data)
               /\ reply' = Reply(frame[t].key, "saved", <<frame[t].user_data.card_number>>)
          ELSE /\ users' = users
               /\ reply' = Reply(frame[t].key, "save_failed", <<>>)
    /\ DeleteState(frame[t].key)
    /\ frame' = [frame EXCEPT ![t] = Idle]
    /\ UNCHANGED <<pg, pg_src, worksheet, file, disk_ok>>

\* The except block of handle_fullname and of handle_birthday: the apology is
\* sent and the state deleted, or bot.reply_to raises again (the same Telegram
\* error as in the try block) and the handler is left before delete_state.
ExceptBlock(k, sent, data_then) ==
    IF sent
    THEN /\ reply' = Reply(k, "error", <<>>)
         /\ DeleteState(k)
    ELSE /\ reply' = reply
         /\ state' = state
         /\ data' = data_then

\* handle_fullname when its bot.reply_to raises (the rejection of the name, or
\* the prompt for the date, before which the name has been stored).
HandleFullnameRaise(t, k, text) ==
    /\ frame[t] = Idle
    /\ Dispatch(k, text) = "handle_fullname"
    /\ \E sent \in BOOLEAN :
          ExceptBlock(k, sent, IF NameAccepted(text)
                               THEN [data EXCEPT ![k] = Strip(text)]
                               ELSE data)
    /\ UNCHANGED <<stores, frame>>

\* handle_birthday when the bot.reply_to of a rejected date, or of the missing
\* name, raises.
HandleBirthdayReadRaise(t, k, text) ==
    /\ frame[t] = Idle
    /\ Dispatch(k, text) = "handle_birthday"
    /\ ~DateAccepted(text) \/ data[k] = NoData
    /\ \E sent \in BOOLEAN : ExceptBlock(k, sent, data)
    /\ UNCHANGED <<stores, frame>>

\* handle_birthday when the bot.reply_to that follows add_user raises.
HandleBirthdayAddRaise(t) ==
    /\ frame[t].pc = "hb_add"
    /\ \E inserted \in BOOLEAN :
          users' = IF inserted THEN SqliteAddUser(frame[t].user_data) ELSE users
    /\ \E sent \in BOOLEAN : ExceptBlock(frame[t].key, sent, data)
    /\ frame' = [frame EXCEPT ![t] = Idle]
    /\ UNCHANGED <<pg, pg_src, worksheet, file, disk_ok>>

\* cancel_form: /cancel in a conversation, when dispatch reaches it.
CancelForm(t, k, text) ==
    /\ frame[t] = Idle
    /\ Dispatch(k, text) = "cancel_form"
    /\ reply' = Reply(k, "cancelled", <<>>)
    /\ DeleteState(k)
    /\ UNCHANGED <<stores, frame>>

\* start_command, status_command, backup_command, help_command and echo_all: a
\* reply, and no change of a store or of a conversation.
InfoHandlers ==
    {"start_command", "status_command", "backup_command", "help_command", "echo_all"}

InfoCommand(t, k, text) ==
    /\ frame[t] = Idle
    /\ Dispatch(k, text) \in InfoHandlers
    /\ reply' = Reply(k, Dispatch(k, text), <<>>)
    /\ UNCHANGED <<stores, session, frame>>

\* The number of rows of the table with the given value of synced_with_pg.
CountSynced(flag) ==
    Cardinality({i \in 1..Len(users) : users[i].synced_with_pg = flag})

\* get_sync_stats: round(synced_users / total_users * 100, 2) if total_users > 0
\* else 0, in hundredths of a percent.
SyncPercentage(synced_users, total_users) ==
    IF total_users > 0
    THEN (2 * 10000 * synced_users + total_users) \div (2 * total_users)
    ELSE 0

\* stats_command up to the first SELECT of get_sync_stats: COUNT(*) of all rows.
\* The three SELECTs run on one connection outside any transaction, each on the
\* table as committed when it runs.
StatsTotal(t, k, text) ==
    /\ frame[t] = Idle
    /\ Dispatch(k, text) = "stats_command"
    /\ frame' = [frame EXCEPT ![t] =
           [pc |-> "stats_synced", key |-> k, total_users |-> Len(users)]]
    /\ UNCHANGED <<stores, session, reply>>

\* get_sync_stats, the second SELECT: COUNT(*) WHERE synced_with_pg = TRUE.
StatsSynced(t) ==
    /\ frame[t].pc = "stats_synced"
    /\ frame' = [frame EXCEPT ![t] =
           [pc |-> "stats_unsynced",
            key |-> frame[t].key,
            total_users |-> frame[t].total_users,
            synced_users |-> CountSynced(TRUE)]]
    /\ UNCHANGED <<stores, session, reply>>

\* get_sync_stats, the third SELECT: COUNT(*) WHERE synced_with_pg = FALSE, the
\* dictionary returned, and the reply of stats_command that shows it.
StatsUnsynced(t) ==
    /\ frame[t].pc = "stats_unsynced"
    /\ reply' = Reply(frame[t].key, "stats",
                      [total_users |-> frame[t].total_users,
                       synced_users |-> frame[t].synced_users,
                       unsynced_users |-> CountSynced(FALSE),
                       sync_percentage |-> SyncPercentage(frame[t].synced_users,
                                                          frame[t].total_users)])
    /\ frame' = [frame EXCEPT ![t] = Idle]
    /\ UNCHANGED <<stores, session>>


\* Mutant of MarkUsersSyncedCall: the rows are updated and committed one by one,
\* so that a write that fails has marked the first row already.
MarkUsersSyncedCall_Partial(user_ids) ==
    /\ frame[1] = Idle
    /\ \E written \in BOOLEAN :
          /\ users' = IF user_ids = {} THEN users
                      ELSE IF written THEN MarkUsersSynced(user_ids)
                      ELSE MarkUsersSynced({Max(user_ids)})
          /\ reply' = Reply(<<0, 0>>, "mark_users_synced",
                            [user_ids |-> user_ids,
                             result |-> (user_ids = {} \/ written)])
    /\ UNCHANGED <<pg, pg_src, worksheet, file, disk_ok, session, frame>>

\* SQLiteManager.mark_users_synced called with user_ids: True at once for an
\* empty list; else the one UPDATE and its commit (True), or sqlite3.Error, the
\* connection rolled back (False). The reply variable keeps the call and its
\* return value.
MarkUsersSyncedCall(user_ids) ==
    /\ frame[1] = Idle
    /\ \E written \in BOOLEAN :
          /\ users' = IF user_ids # {} /\ written THEN MarkUsersSynced(user_ids)
                      ELSE users
          /\ reply' = Reply(<<0, 0>>, "mark_users_synced",
                            [user_ids |-> user_ids,
                             result |-> (user_ids = {} \/ written)])
    /\ UNCHANGED <<pg, pg_src, worksheet, file, disk_ok, session, frame>>

\* ------------------------------------------------------------ mirror store

\* The DATE the mirror stores for a 'YYYY-MM-DD' text: <<year, month, day>>.
ParseIso(s) ==
    <<ToInt(SubSeq(s, 1, Len(s) - 6)),
      ToInt(SubSeq(s, Len(s) - 4, Len(s) - 3)),
      ToInt(SubSeq(s, Len(s) - 1, Len(s)))>>

\* Mutant of DbAddUser: the mirror numbers the cards itself, by its own id.
DbAddUser_Renumber(full_name, summ, card_number, birthday) ==
    Append(pg, [id |-> Len(pg) + 1,
                full_name |-> full_name,
                summ |-> summ,
                card_number |-> Len(pg) + 1,
                birthday |-> ParseIso(birthday)])

\* Database.add_user: the table after a committed INSERT ... RETURNING id; the
\* mirror gives the row its own id and keeps the birthday as a DATE.
DbAddUser(full_name, summ, card_number, birthday) ==
    Append(pg, [id |-> Len(pg) + 1,
                full_name |-> full_name,
                summ |-> summ,
                card_number |-> card_number,
                birthday |-> ParseIso(birthday)])

\* Database.get_all_users: SELECT * FROM users ORDER BY id.
DbGetAllUsers == pg

\* test_db.py, test_database_connection: the script adds its test user to the
\* mirror with Database.add_user (no row of the primary store stands behind it).
TestDbAddUser ==
    /\ Len(pg) < MaxPg
    /\ pg' = DbAddUser(<<"T", "e", "s", "t", " ", "U", "s", "e", "r">>, "100.50", 12345,
                       <<"1", "9", "9", "0", "-", "0", "1", "-", "0", "1">>)
    /\ pg_src' = Append(pg_src, 0)
    /\ UNCHANGED <<users, worksheet, file, disk_ok, session, frame, reply>>

\* What one call of db.add_user can do in sync_pg_command's loop: return an id,
\* return None, or raise.
DbOutcomes == {"id", "none", "raise"}

\* Mutant of SyncPgFetch: the test "if not unsynced_users" is missing, so that
\* a pass over no row starts and ends with a report.
SyncPgFetch_NoEarlyReturn(t, k, text) ==
    /\ frame[t] = Idle
    /\ Dispatch(k, text) = "sync_pg_command"
    /\ LET unsynced_users == GetUnsyncedUsers IN
       /\ reply' = Reply(k, "pg_started", <<Len(unsynced_users)>>)
       /\ frame' = [frame EXCEPT ![t] =
              [pc |-> "pg_loop",
               key |-> k,
               unsynced_users |-> unsynced_users,
               i |-> 1,
               success_count |-> 0,
               error_count |-> 0,
               synced_ids |-> <<>>]]
    /\ UNCHANGED <<stores, session>>

\* sync_pg_command up to the start of the loop: the fetch of the unsynced rows
\* and, when there is none, the reply that ends the command.
SyncPgFetch(t, k, text) ==
    /\ frame[t] = Idle
    /\ Dispatch(k, text) = "sync_pg_command"
    /\ LET unsynced_users == GetUnsyncedUsers IN
       IF unsynced_users = <<>>
       THEN /\ reply' = Reply(k, "pg_nothing", <<>>)
            /\ UNCHANGED frame
       ELSE /\ reply' = Reply(k, "pg_started", <<Len(unsynced_users)>>)
            /\ frame' = [frame EXCEPT ![t] =
                   [pc |-> "pg_loop",
                    key |-> k,
                    unsynced_users |-> unsynced_users,
                    i |-> 1,
                    success_count |-> 0,
                    error_count |-> 0,
                    synced_ids |-> <<>>]]
    /\ UNCHANGED <<stores, session>>

\* Mutant of PgLoopTurn: synced_ids.append is outside the "is not None" test.
PgLoopTurn_AlwaysCollect(f, outcome) ==
    IF outcome = "id"
    THEN [f EXCEPT !.i = f.i + 1,
                   !.success_count = f.success_count + 1,
                   !.synced_ids = Append(f.synced_ids, f.unsynced_users[f.i].id)]
    ELSE [f EXCEPT !.i = f.i + 1,
                   !.error_count = f.error_count + 1,
                   !.synced_ids = Append(f.synced_ids, f.unsynced_users[f.i].id)]

\* Mutant of PgLoopTurn: the except branch of the loop body does not count.
PgLoopTurn_RaiseUncounted(f, outcome) ==
    IF outcome = "id"
    THEN [f EXCEPT !.i = f.i + 1,
                   !.success_count = f.success_count + 1,
                   !.synced_ids = Append(f.synced_ids, f.unsynced_users[f.i].id)]
    ELSE IF outcome = "none"
    THEN [f EXCEPT !.i = f.i + 1,
                   !.error_count = f.error_count + 1]
    ELSE [f EXCEPT !.i = f.i + 1]

\* Mutant of PgLoopTurn: synced_ids.append is missing, a row inserted into the
\* mirror is counted and its id not kept.
PgLoopTurn_NeverCollect(f, outcome) ==
    IF outcome = "id"
    THEN [f EXCEPT !.i = f.i + 1,
                   !.success_count = f.success_count + 1]
    ELSE [f EXCEPT !.i = f.i + 1,
                   !.error_count = f.error_count + 1]

\* The frame after one turn of sync_pg_command's loop with the given outcome.
PgLoopTurn(f, outcome) ==
    IF outcome = "id"
    THEN [f EXCEPT !.i = f.i + 1,
                   !.success_count = f.success_count + 1,
                   !.synced_ids = Append(f.synced_ids, f.unsynced_users[f.i].id)]
    ELSE [f EXCEPT !.i = f.i + 1,
                   !.error_count = f.error_count + 1]

\* Mutant of SyncPgInsert: mark_users_synced is called inside the loop, for the
\* row just inserted.
SyncPgInsert_MarkAtOnce(t) ==
    /\ frame[t].pc = "pg_loop"
    /\ frame[t].i <= Len(frame[t].unsynced_users)
    /\ LET user == frame[t].unsynced_users[frame[t].i] IN
       \E outcome \in DbOutcomes :
          /\ outcome = "id" => Len(pg) < MaxPg
          /\ IF outcome = "id"
             THEN /\ pg' = DbAddUser(user.full_name, user.summ,
                                     user.card_number, user.birthday)
                  /\ pg_src' = Append(pg_src, user.id)
                  /\ users' = MarkUsersSynced({user.id})
             ELSE UNCHANGED <<pg, pg_src, users>>
          /\ frame' = [frame EXCEPT ![t] = PgLoopTurn(frame[t], outcome)]
    /\ UNCHANGED <<worksheet, file, disk_ok, session, reply>>

\* One turn of sync_pg_command's loop: the insert of the next fetched row.
SyncPgInsert(t) ==
    /\ frame[t].pc = "pg_loop"
    /\ frame[t].i <= Len(frame[t].unsynced_users)
    /\ LET user == frame[t].unsynced_users[frame[t].i] IN
       \E outcome \in DbOutcomes :
          /\ outcome = "id" => Len(pg) < MaxPg
          /\ IF outcome = "id"
             THEN /\ pg' = DbAddUser(user.full_name, user.summ,
                                     user.card_number, user.birthday)
                  /\ pg_src' = Append(pg_src, user.id)
             ELSE UNCHANGED <<pg, pg_src>>
          /\ frame' = [frame EXCEPT ![t] = PgLoopTurn(frame[t], outcome)]
    /\ UNCHANGED <<users, worksheet, file, disk_ok, session, reply>>

\* db.add_user of the next fetched row when the server does not answer:
\* psycopg2.connect is called without connect_timeout and the INSERT is
\* executed without a statement timeout, so the call does not return and the
\* handler waits in it. No step of the handler leaves this position.
SyncPgInsertNoAnswer(t) ==
    /\ frame[t].pc = "pg_loop"
    /\ frame[t].i <= Len(frame[t].unsynced_users)
    /\ frame' = [frame EXCEPT ![t].pc = "pg_wait"]
    /\ UNCHANGED <<stores, session, reply>>

Range(s) == {s[i] : i \in 1..Len(s)}

\* The report of sync_pg_command: success, errors, total processed, still pending.
PgReport(f) ==
    [success |-> f.success_count,
     error |-> f.error_count,
     total |-> f.success_count + f.error_count,
     pending |-> Len(f.unsynced_users) - f.success_count]

\* sync_pg_command after the loop: mark_users_synced on the collected ids (it
\* returns False, and changes nothing, on sqlite3.Error), then the report.
SyncPgFinish(t) ==
    /\ frame[t].pc = "pg_loop"
    /\ frame[t].i > Len(frame[t].unsynced_users)
    /\ IF frame[t].synced_ids # <<>>
       THEN \E marked \in BOOLEAN :
               users' = IF marked THEN MarkUsersSynced(Range(frame[t].synced_ids))
                        ELSE users
       ELSE users' = users
    /\ reply' = Reply(frame[t].key, "pg_report", PgReport(frame[t]))
    /\ frame' = [frame EXCEPT ![t] = Idle]
    /\ UNCHANGED <<pg, pg_src, worksheet, file, disk_ok, session>>


\* ------------------------------------------------------------ backup store

\* What ExcelBackupManager.add_user can do: write the row and call save(), whose
\* result it does not look at (True); raise in a cell write after the id cell
\* is written (False).
XlAddOutcomes == {"written", "raise"}

\* The sheet row add_user writes for user_data.
XlRow(user_data) ==
    [id |-> user_data.id,
     full_name |-> user_data.full_name,
     summ |-> user_data.summ,
     card_number |-> user_data.card_number,
     birthday |-> user_data.birthday]

\* The sheet row left behind by an add_user that raised after the id cell.
XlPartialRow(user_data) ==
    [id |-> user_data.id,
     full_name |-> NULL,
     summ |-> NULL,
     card_number |-> NULL,
     birthday |-> NULL]

\* Mutant of XlAddUser: the validation of the cells precedes every cell write,
\* so that an add_user that raises leaves no row.
XlAddUser_NoTrace(user_data, outcome) ==
    IF outcome = "raise" THEN worksheet ELSE Append(worksheet, XlRow(user_data))

\* ExcelBackupManager.add_user: the sheet in memory afterwards.
XlAddUser(user_data, outcome) ==
    Append(worksheet,
           IF outcome = "raise" THEN XlPartialRow(user_data) ELSE XlRow(user_data))

\* ExcelBackupManager.add_user: its return value.
XlAddResult(outcome) == outcome # "raise"

\* ExcelBackupManager.save as add_user and clear_backup call it: the file after
\* it (save() catches the error of a failed write and returns False).
XlSave(sheet, outcome) == IF outcome = "written" /\ disk_ok THEN sheet ELSE file

\* ExcelBackupManager.get_existing_ids: the ids in column 1 of the data rows.
GetExistingIds == {worksheet[i].id : i \in 1..Len(worksheet)}

\* ExcelBackupManager.get_backup_info()['total_records']: max_row - 1.
TotalRecords == Len(worksheet)

\* What ExcelBackupManager.clear_backup can do: delete the data rows and call
\* save() (True), or raise before deleting (False).
XlClearOutcomes == {"written", "raise"}

\* ExcelBackupManager.clear_backup: the sheet in memory afterwards.
ClearBackup(outcome) == IF outcome = "raise" THEN worksheet ELSE <<>>

\* clear_backup_command.
ClearBackupCommand(t, k, text) ==
    /\ frame[t] = Idle
    /\ Dispatch(k, text) = "clear_backup_command"
    /\ LET current_records == TotalRecords IN
       IF current_records = 0
       THEN /\ reply' = Reply(k, "clear_already_empty", <<>>)
            /\ UNCHANGED <<worksheet, file>>
       ELSE \E outcome \in XlClearOutcomes :
               /\ worksheet' = ClearBackup(outcome)
               /\ file' = XlSave(worksheet', outcome)
               /\ reply' = IF outcome # "raise"
                           THEN Reply(k, "cleared", <<current_records>>)
                           ELSE Reply(k, "clear_failed", <<>>)
    /\ UNCHANGED <<users, pg, pg_src, disk_ok, session, frame>>

\* Mutant of XlLoopTurn: a failed add_user does not move on to the next row, so
\* that the same row is tried again.
XlLoopTurn_Retry(f, outcome) ==
    IF XlAddResult(outcome)
    THEN [f EXCEPT !.i = f.i + 1, !.success_count = f.success_count + 1]
    ELSE [f EXCEPT !.error_count = f.error_count + 1]

\* The frame after one turn of a backup loop with the given outcome.
XlLoopTurn(f, outcome) ==
    IF XlAddResult(outcome)
    THEN [f EXCEPT !.i = f.i + 1, !.success_count = f.success_count + 1]
    ELSE [f EXCEPT !.i = f.i + 1, !.error_count = f.error_count + 1]

\* sync_excel_command up to the start of the loop: the read of all rows of the
\* primary store and the clearing of the sheet.
SyncExcelClear(t, k, text) ==
    /\ frame[t] = Idle
    /\ Dispatch(k, text) = "sync_excel_command"
    /\ LET all_users == GetAllUsers IN
       IF all_users = <<>>
       THEN /\ reply' = Reply(k, "xl_no_data", <<>>)
            /\ UNCHANGED <<worksheet, file, frame>>
       ELSE /\ Len(all_users) <= MaxRows
            /\ \E outcome \in XlClearOutcomes :
               /\ worksheet' = ClearBackup(outcome)
               /\ file' = XlSave(worksheet', outcome)
               /\ IF outcome = "raise"
                  THEN /\ reply' = Reply(k, "xl_clear_failed", <<>>)
                       /\ UNCHANGED frame
                  ELSE /\ reply' = reply
                       /\ frame' = [frame EXCEPT ![t] =
                              [pc |-> "xl_loop",
                               key |-> k,
                               all_users |-> all_users,
                               i |-> 1,
                               success_count |-> 0,
                               error_count |-> 0]]
    /\ UNCHANGED <<users, pg, pg_src, disk_ok, session>>

\* One turn of sync_excel_command's loop: the next row of the primary store.
SyncExcelAdd(t) ==
    /\ frame[t].pc = "xl_loop"
    /\ frame[t].i <= Len(frame[t].all_users)
    /\ Len(worksheet) < MaxRows
    /\ LET user == frame[t].all_users[frame[t].i] IN
       \E outcome \in XlAddOutcomes :
          /\ worksheet' = XlAddUser(user, outcome)
          /\ file' = XlSave(worksheet', outcome)
          /\ frame' = [frame EXCEPT ![t] = XlLoopTurn(frame[t], outcome)]
    /\ UNCHANGED <<users, pg, pg_src, disk_ok, session, reply>>

\* sync_excel_command after the loop: the report.
SyncExcelReport(t) ==
    /\ frame[t].pc = "xl_loop"
    /\ frame[t].i > Len(frame[t].all_users)
    /\ reply' = Reply(frame[t].key, "xl_report",
                      [success |-> frame[t].success_count,
                       error |-> frame[t].error_count,
                       total |-> frame[t].success_count + frame[t].error_count])
    /\ frame' = [frame EXCEPT ![t] = Idle]
    /\ UNCHANGED <<stores, session>>

\* sync_backup_command: the rows read (from the mirror) whose id the sheet lacks.
NewUsers(all_users, existing_ids) ==
    SelectSeq(all_users, LAMBDA user : user.id \notin existing_ids)

\* sync_backup_command: the user_data built for a row read from the mirror.
BackupUserData(user) ==
    [id |-> user.id,
     full_name |-> user.full_name,
     summ |-> user.summ,
     card_number |-> user.card_number,
     birthday |-> Strftime(user.birthday[1], user.birthday[2], user.birthday[3])]

\* sync_backup_command up to the start of the loop: the read of all rows of the
\* mirror, the ids of the sheet, and the rows to add.
SyncBackupFilter(t, k, text) ==
    /\ frame[t] = Idle
    /\ Dispatch(k, text) = "sync_backup_command"
    /\ LET all_users == DbGetAllUsers
           existing_ids == GetExistingIds
           new_users == NewUsers(all_users, existing_ids)
           skipped_users == Len(all_users) - Len(new_users)
       IN IF all_users = <<>>
          THEN /\ reply' = Reply(k, "bk_no_users", <<>>)
               /\ UNCHANGED frame
          ELSE IF new_users = <<>>
          THEN /\ reply' = Reply(k, "bk_all_exist",
                                 [in_db |-> Len(all_users),
                                  in_excel |-> Cardinality(existing_ids),
                                  skipped |-> skipped_users])
               /\ UNCHANGED frame
          ELSE /\ Len(worksheet) + Len(new_users) <= MaxRows
               /\ reply' = reply
               /\ frame' = [frame EXCEPT ![t] =
                      [pc |-> "bk_loop",
                       key |-> k,
                       new_users |-> new_users,
                       skipped_users |-> skipped_users,
                       existing_ids |-> existing_ids,
                       i |-> 1,
                       success_count |-> 0,
                       error_count |-> 0]]
    /\ UNCHANGED <<stores, session>>

\* One turn of sync_backup_command's loop: the next new row.
SyncBackupAdd(t) ==
    /\ frame[t].pc = "bk_loop"
    /\ frame[t].i <= Len(frame[t].new_users)
    /\ Len(worksheet) < MaxRows
    /\ LET user == frame[t].new_users[frame[t].i] IN
       \E outcome \in XlAddOutcomes :
          /\ worksheet' = XlAddUser(BackupUserData(user), outcome)
          /\ file' = XlSave(worksheet', outcome)
          /\ frame' = [frame EXCEPT ![t] = XlLoopTurn(frame[t], outcome)]
    /\ UNCHANGED <<users, pg, pg_src, disk_ok, session, reply>>

\* sync_backup_command after the loop: the report.
SyncBackupReport(t) ==
    /\ frame[t].pc = "bk_loop"
    /\ frame[t].i > Len(frame[t].new_users)
    /\ reply' = Reply(frame[t].key, "bk_report",
                      [added |-> frame[t].success_count,
                       error |-> frame[t].error_count,
                       skipped |-> frame[t].skipped_users,
                       total |-> frame[t].success_count + frame[t].error_count,
                       in_excel |-> Cardinality(frame[t].existing_ids)
                                        + frame[t].success_count])
    /\ frame' = [frame EXCEPT ![t] = Idle]
    /\ UNCHANGED <<stores, session>>


\* ---------------------------------------------------------- specifications

\* The message texts of the whole-system specification.
Texts ==
    {T_form, T_cancel, T_IvanPetrov, T_15_05_1990,
     T_sync_pg, T_sync_excel, T_sync_backup, T_clear_backup}

\* The handling of one incoming message by thread t, up to the handler's first
\* access to a store shared with other threads.
Deliver(t, k, text) ==
    \/ FormCommand(t, k, text)
    \/ HandleFullname(t, k, text)
    \/ HandleBirthdayRead(t, k, text)
    \/ InfoCommand(t, k, text)
    \/ SyncPgFetch(t, k, text)
    \/ SyncExcelClear(t, k, text)
    \/ ClearBackupCommand(t, k, text)
    \/ SyncBackupFilter(t, k, text)

\* The next step of the handler that thread t is running.
Continue(t) ==
    \/ HandleBirthdayAdd(t)
    \/ SyncPgInsert(t)
    \/ SyncPgFinish(t)
    \/ SyncExcelAdd(t)
    \/ SyncExcelReport(t)
    \/ SyncBackupAdd(t)
    \/ SyncBackupReport(t)

\* Messages handled one at a time: a single worker runs every handler to its end
\* before the next message is taken.
Next ==
    \/ \E text \in Texts : Deliver(1, <<1, 1>>, text)
    \/ Continue(1)

Spec == Init /\ [][Next]_vars


\* The message texts of the form specification.
FormTexts ==
    {T_form, T_cancel, T_Ivan, T_IvanPetrov, T_AnnaLee,
     T_15_05_1990, T_31_12_2000, T_29_02_2001}

\* The form conversation alone, for every conversation key, messages handled
\* one at a time.
NextForm ==
    \/ \E k \in Keys, text \in FormTexts :
          \/ FormCommand(1, k, text)
          \/ HandleFullname(1, k, text)
          \/ HandleBirthdayRead(1, k, text)
          \/ InfoCommand(1, k, text)
    \/ HandleBirthdayAdd(1)

SpecForm == Init /\ [][NextForm]_vars

\* The message texts of the two-thread specification.
ThreadTexts == {T_form, T_IvanPetrov, T_15_05_1990, T_sync_pg}

\* Some thread is handling a message of conversation k.
Busy(k) == \E t \in Threads : frame[t] # Idle /\ frame[t].key = k

\* The form conversation and the mirror pass with the handlers of two messages
\* running at once, one on each worker thread: a step is a step of either
\* thread. The messages of one conversation are handled one after the other;
\* those of two conversations overlap.
NextThreads ==
    \E t \in Threads :
       \/ \E k \in Keys, text \in ThreadTexts :
             /\ ~Busy(k)
             /\ \/ FormCommand(t, k, text)
                \/ HandleFullname(t, k, text)
                \/ HandleBirthdayRead(t, k, text)
                \/ SyncPgFetch(t, k, text)
       \/ HandleBirthdayAdd(t)
       \/ SyncPgInsert(t)
       \/ SyncPgFinish(t)

SpecThreads == Init /\ [][NextThreads]_vars


\* The message texts of the backup specification.
BackupTexts ==
    {T_form, T_IvanPetrov, T_15_05_1990, T_sync_excel, T_sync_backup, T_clear_backup}

\* The two backup commands next to the form and to test_db.py, which fills the
\* mirror on its own; messages handled one at a time.
NextBackup ==
    \/ \E text \in BackupTexts :
          \/ FormCommand(1, <<1, 1>>, text)
          \/ HandleFullname(1, <<1, 1>>, text)
          \/ HandleBirthdayRead(1, <<1, 1>>, text)
          \/ InfoCommand(1, <<1, 1>>, text)
          \/ SyncExcelClear(1, <<1, 1>>, text)
          \/ ClearBackupCommand(1, <<1, 1>>, text)
          \/ SyncBackupFilter(1, <<1, 1>>, text)
    \/ HandleBirthdayAdd(1)
    \/ SyncExcelAdd(1)
    \/ SyncExcelReport(1)
    \/ SyncBackupAdd(1)
    \/ SyncBackupReport(1)
    \/ frame[1] = Idle /\ TestDbAddUser

SpecBackup == Init /\ [][NextBackup]_vars


\* The message texts of the cancel specification.
CancelTexts == {T_form, T_IvanPetrov, T_15_05_1990, T_cancel}

\* The handling of a message of the form conversation by thread t: the bot
\* runs the handler that Dispatch selects, cancel_form included.
HandleFormMessage(t, k, text) ==
    IF Dispatch(k, text) = "form_command" THEN FormCommand(t, k, text)
    ELSE IF Dispatch(k, text) = "handle_fullname" THEN HandleFullname(t, k, text)
    ELSE IF Dispatch(k, text) = "handle_birthday" THEN HandleBirthdayRead(t, k, text)
    ELSE IF Dispatch(k, text) = "cancel_form" THEN CancelForm(t, k, text)
    ELSE InfoCommand(t, k, text)

\* The form conversations with their messages handled by two worker threads
\* at once, those of one conversation included: a message (/cancel, a second
\* date, /form) is handled while an earlier date message of the same
\* conversation is between its read of the table and its insert. A user sends
\* the name when asked for it.
NextCancel ==
    \E t \in Threads :
       \/ \E k \in Keys, text \in CancelTexts :
             /\ text = T_IvanPetrov => state[k] = ENTER_FULLNAME
             /\ HandleFormMessage(t, k, text)
       \/ HandleBirthdayAdd(t)

SpecCancel == Init /\ [][NextCancel]_vars


\* The form conversation with handlers whose bot.reply_to can raise, messages
\* handled one at a time.
NextFormErrors ==
    \/ \E k \in Keys, text \in FormTexts :
          \/ FormCommand(1, k, text)
          \/ HandleFullname(1, k, text)
          \/ HandleFullnameRaise(1, k, text)
          \/ HandleBirthdayRead(1, k, text)
          \/ HandleBirthdayReadRaise(1, k, text)
          \/ InfoCommand(1, k, text)
    \/ HandleBirthdayAdd(1)
    \/ HandleBirthdayAddRaise(1)

SpecFormErrors == Init /\ [][NextFormErrors]_vars


\* The message texts of the name specification.
NameTexts ==
    {T_form, T_cancel, T_cancel_now, T_Ivan, T_IvanPadded, T_spaces, T_IvanPetrov,
     T_IvanPetrovPadded, T_AnnaLee, T_A_tab_B}

\* The start of the form and the name step, for every conversation key and every
\* name text, messages handled one at a time.
NextNames ==
    \E k \in Keys, text \in NameTexts :
       \/ FormCommand(1, k, text)
       \/ HandleFullname(1, k, text)
       \/ InfoCommand(1, k, text)

SpecNames == Init /\ [][NextNames]_vars


\* The message texts sent as dates in the date specification.
DateTexts ==
    {T_31_12_2000, T_29_02_2001, T_2000_12_31, T_01_03_2001, T_02_03_2001,
     T_15_05_1990_Padded, T_29_02_2000, T_29_02_1900, T_31_02_2999, T_31_12_2999,
     T_32_01_2000, T_00_00_0000, T_1_3_2001, T_31_12_00, T_15_05_1990_Slash}

\* The form of conversation <<1, 1>> with every date text, messages handled
\* one at a time.
NextDates ==
    \/ \E text \in DateTexts \cup {T_form, T_IvanPetrov} :
          \/ FormCommand(1, <<1, 1>>, text)
          \/ HandleFullname(1, <<1, 1>>, text)
          \/ HandleBirthdayRead(1, <<1, 1>>, text)
          \/ InfoCommand(1, <<1, 1>>, text)
    \/ HandleBirthdayAdd(1)

SpecDates == Init /\ [][NextDates]_vars


\* The message texts of the statistics specification.
StatsTexts == {T_form, T_IvanPetrov, T_15_05_1990, T_sync_pg}

\* The form and the mirror pass of conversation <<1, 1>> on one worker thread
\* and /stats of conversation <<2, 2>> on the other, both at once.
NextStats ==
    \/ \E text \in StatsTexts :
          \/ FormCommand(1, <<1, 1>>, text)
          \/ HandleFullname(1, <<1, 1>>, text)
          \/ HandleBirthdayRead(1, <<1, 1>>, text)
          \/ SyncPgFetch(1, <<1, 1>>, text)
    \/ HandleBirthdayAdd(1)
    \/ SyncPgInsert(1)
    \/ SyncPgFinish(1)
    \/ StatsTotal(2, <<2, 2>>, T_stats)
    \/ StatsSynced(2)
    \/ StatsUnsynced(2)

SpecStats == Init /\ [][NextStats]_vars

\* The message texts of the retry specification.
RetryTexts == {T_form, T_IvanPetrov, T_AnnaLee, T_15_05_1990, T_31_12_2000}

\* The flag update of the pass that thread t ends has failed.
MarkFailed(t) == frame[t].synced_ids # <<>> /\ users' = users

\* The form of conversation <<1, 1>> and the mirror pass, which conversation
\* <<2, 2>> asks for (it fills no form, so that its /sync_pg is taken as the
\* command), messages handled one at a time, with the failures of the flag
\* update limited in number: a pass whose flag update fails leaves its rows to
\* be inserted again, and the update fails only while the mirror has room for
\* those inserts and for those of the rows still to come.
NextRetry ==
    \/ \E text \in RetryTexts :
          \/ FormCommand(1, <<1, 1>>, text)
          \/ HandleFullname(1, <<1, 1>>, text)
          \/ Len(users) < MaxUsers - 1 /\ HandleBirthdayRead(1, <<1, 1>>, text)
    \/ SyncPgFetch(1, <<2, 2>>, T_sync_pg)
    \/ HandleBirthdayAdd(1)
    \/ SyncPgInsert(1)
    \/ /\ SyncPgFinish(1)
       /\ MarkFailed(1) => Len(pg) + (MaxUsers - 1) - CountSynced(TRUE) <= MaxPg

\* /sync_pg is sent again and again; a handler that has started runs on; of the
\* inserts into the mirror and of the flag updates, tried again and again, one
\* succeeds in the end.
FairRetry ==
    /\ SF_vars(SyncPgFetch(1, <<2, 2>>, T_sync_pg))
    /\ WF_vars(HandleBirthdayAdd(1))
    /\ WF_vars(SyncPgInsert(1))
    /\ WF_vars(SyncPgFinish(1))
    /\ SF_vars(SyncPgInsert(1) /\ pg' # pg)
    /\ SF_vars(SyncPgFinish(1) /\ users' # users)

SpecRetry == Init /\ [][NextRetry]_vars /\ FairRetry

\* The form and the mirror pass of conversation <<1, 1>>, messages handled one
\* at a time, with a mirror server that may leave an insert unanswered.
NextNoAnswer ==
    \/ \E text \in ThreadTexts :
          \/ FormCommand(1, <<1, 1>>, text)
          \/ HandleFullname(1, <<1, 1>>, text)
          \/ HandleBirthdayRead(1, <<1, 1>>, text)
          \/ SyncPgFetch(1, <<1, 1>>, text)
    \/ HandleBirthdayAdd(1)
    \/ SyncPgInsert(1)
    \/ SyncPgInsertNoAnswer(1)
    \/ SyncPgFinish(1)

\* A handler that has started runs on whenever its next call returns.
FairNoAnswer ==
    /\ WF_vars(HandleBirthdayAdd(1))
    /\ WF_vars(SyncPgInsert(1))
    /\ WF_vars(SyncPgFinish(1))

SpecNoAnswer == Init /\ [][NextNoAnswer]_vars /\ FairNoAnswer

\* The form and the mirror pass of conversation <<1, 1>>, messages handled one
\* at a time, passes one after the other. The flag update can fail only at the
\* end of a pass that inserted the row of id 1 and no other row: every flag
\* update for any other row succeeds.
NextPasses ==
    \/ \E text \in ThreadTexts :
          \/ FormCommand(1, <<1, 1>>, text)
          \/ HandleFullname(1, <<1, 1>>, text)
          \/ HandleBirthdayRead(1, <<1, 1>>, text)
          \/ SyncPgFetch(1, <<1, 1>>, text)
    \/ HandleBirthdayAdd(1)
    \/ SyncPgInsert(1)
    \/ SyncPgFinish(1) /\ (MarkFailed(1) => frame[1].synced_ids = <<1>>)

SpecPasses == Init /\ [][NextPasses]_vars

\* The message texts of the dispatch specification: every command of the bot
\* that the model has a text for, a name and a date.
DispatchTexts ==
    {T_start, T_form, T_cancel, T_stats, T_sync_pg, T_sync_excel, T_clear_backup,
     T_sync_backup, T_help, T_IvanPetrov, T_15_05_1990}

\* The handling of message text of conversation k from the dispatch on: the
\* first part of whichever handler the bot selects.
DispatchDeliver(k, text) ==
    \/ Deliver(1, k, text)
    \/ StatsTotal(1, k, text)

\* Every command, in and outside the form, for conversation <<1, 1>>, messages
\* handled one at a time; a date is sent only while the table is empty, so that
\* the table holds one row at most.
NextDispatch ==
    \/ \E text \in DispatchTexts :
          /\ text = T_15_05_1990 => users = <<>>
          /\ DispatchDeliver(<<1, 1>>, text)
    \/ Continue(1)
    \/ StatsSynced(1)
    \/ StatsUnsynced(1)

SpecDispatch == Init /\ [][NextDispatch]_vars

\* The disk under the backup file: workbook.save starts to fail (disk full, the
\* file locked or read-only), or works again.
DiskChange ==
    /\ disk_ok' = ~disk_ok
    /\ UNCHANGED <<users, pg, pg_src, worksheet, file, session, frame, reply>>

\* The backup commands next to the form, messages handled one at a time, on a
\* disk that can refuse a write of the backup file.
NextDisk ==
    \/ \E text \in BackupTexts :
          \/ FormCommand(1, <<1, 1>>, text)
          \/ HandleFullname(1, <<1, 1>>, text)
          \/ HandleBirthdayRead(1, <<1, 1>>, text)
          \/ InfoCommand(1, <<1, 1>>, text)
          \/ SyncExcelClear(1, <<1, 1>>, text)
          \/ ClearBackupCommand(1, <<1, 1>>, text)
    \/ HandleBirthdayAdd(1)
    \/ SyncExcelAdd(1)
    \/ SyncExcelReport(1)
    \/ DiskChange

SpecDisk == Init /\ [][NextDisk]_vars

\* The lists of ids mark_users_synced is called with: any ids of the table, and
\* one id the table never holds.
MarkIds == SUBSET (1..(MaxUsers + 1))

\* The form of conversation <<1, 1>>, which fills the table, and calls of
\* mark_users_synced with any list of ids, one operation at a time.
NextMark ==
    \/ \E text \in {T_form, T_IvanPetrov, T_15_05_1990} :
          \/ FormCommand(1, <<1, 1>>, text)
          \/ HandleFullname(1, <<1, 1>>, text)
          \/ HandleBirthdayRead(1, <<1, 1>>, text)
    \/ HandleBirthdayAdd(1)
    \/ \E user_ids \in MarkIds : MarkUsersSyncedCall(user_ids)

SpecMark == Init /\ [][NextMark]_vars

\* ------------------------------------------------------------------ claims

\* The card numbers of the rows of the primary store.
CardNumbers == {users[i].card_number : i \in 1..Len(users)}

\* C1 (SpecThreads): whatever number N of form completions have run, on one
\* thread or on two at once, the card numbers of the N records are exactly
\* 1..N: none is shared by two records and none is missing.
C1_CardNumbersAreOneToN ==
    /\ CardNumbers = 1..Len(users)
    /\ Cardinality(CardNumbers) = Len(users)

\* C2 (SpecForm): with the messages handled one at a time, a step that adds a
\* record adds exactly one, leaves the earlier ones as they were, and gives the
\* new one the card number max(existing) + 1, or 1 in an empty store, which is
\* greater than every earlier card number.
C2_SequentialCardNumber ==
    [][Len(users') # Len(users) =>
          /\ Len(users') = Len(users) + 1
          /\ \A i \in 1..Len(users) : users'[i] = users[i]
          /\ LET c == users'[Len(users')].card_number IN
             /\ c = IF users = <<>> THEN 1
                    ELSE 1 + CHOOSE m \in CardNumbers : \A n \in CardNumbers : n <= m
             /\ \A n \in CardNumbers : n < c]_vars

\* C2 witness: two completions, one after the other, got the numbers 1 and 2.
C2_Witness ==
    /\ Len(users) = 2
    /\ users[1].card_number = 1
    /\ users[2].card_number = 2
    /\ frame[1] = Idle

\* The handling of message text of conversation k in the form specification.
FormDeliver(k, text) ==
    \/ FormCommand(1, k, text)
    \/ HandleFullname(1, k, text)
    \/ HandleBirthdayRead(1, k, text)
    \/ InfoCommand(1, k, text)

\* C7 (SpecForm): the handling of /cancel in a conversation that is in
\* ENTER_FULLNAME or ENTER_BIRTHDAY ends it as cancelled: the state and the
\* stored name are deleted, the reply is the cancellation and no record is made.
C7_CancelEndsConversation ==
    [][\A k \in Keys :
          (state[k] \in {ENTER_FULLNAME, ENTER_BIRTHDAY} /\ FormDeliver(k, T_cancel)) =>
             /\ state'[k] = NoState
             /\ data'[k] = NoData
             /\ reply' = Reply(k, "cancelled", <<>>)
             /\ users' = users]_vars

\* The 'YYYY-MM-DD' text expected for the valid dates of FormTexts.
ExpectedBirthday(text) ==
    IF text = T_15_05_1990 THEN <<"1", "9", "9", "0", "-", "0", "5", "-", "1", "5">>
    ELSE IF text = T_31_12_2000 THEN <<"2", "0", "0", "0", "-", "1", "2", "-", "3", "1">>
    ELSE <<>>

\* C8 (SpecForm): in any conversation /form leads to ENTER_FULLNAME, a valid
\* name there is stored and leads to ENTER_BIRTHDAY, and a valid date there
\* makes handle_birthday insert, unless add_user returns None (a storage
\* failure), exactly one record with the stored name, that date as YYYY-MM-DD,
\* amount 0, the next card number and synced_with_pg FALSE; the conversation
\* then ends with the confirmation reply and its state and name deleted.
C8_FormScenario ==
    [][/\ \A k \in Keys :
             /\ FormDeliver(k, T_form) => state'[k] = ENTER_FULLNAME /\ users' = users
             /\ \A text \in {T_IvanPetrov, T_AnnaLee} :
                   (state[k] = ENTER_FULLNAME /\ FormDeliver(k, text)) =>
                      /\ state'[k] = ENTER_BIRTHDAY
                      /\ data'[k] = text
                      /\ users' = users
             /\ \A text \in {T_15_05_1990, T_31_12_2000} :
                   (state[k] = ENTER_BIRTHDAY /\ FormDeliver(k, text)) =>
                      /\ frame'[1].pc = "hb_add"
                      /\ frame'[1].key = k
                      /\ frame'[1].user_data.full_name = data[k]
                      /\ frame'[1].user_data.birthday = ExpectedBirthday(text)
                      /\ frame'[1].user_data.card_number =
                            (IF users = <<>> THEN 1
                             ELSE 1 + CHOOSE m \in CardNumbers : \A n \in CardNumbers : n <= m)
                      /\ UNCHANGED <<users, state, data>>
       /\ (frame[1].pc = "hb_add" /\ users' # users) =>
             /\ users' = Append(users,
                           [id |-> Len(users) + 1,
                            full_name |-> frame[1].user_data.full_name,
                            summ |-> 0,
                            card_number |-> frame[1].user_data.card_number,
                            birthday |-> frame[1].user_data.birthday,
                            synced_with_pg |-> FALSE,
                            synced_at |-> NULL])
             /\ state'[frame[1].key] = NoState
             /\ data'[frame[1].key] = NoData
             /\ reply' = Reply(frame[1].key, "saved", <<frame[1].user_data.card_number>>)
             /\ frame'[1] = Idle]_vars

\* C8 witness: the conversation <<2, 2>> has just ended with the confirmation
\* for the second record, "Anna Lee" born 2000-12-31.
C8_Witness ==
    /\ reply = Reply(<<2, 2>>, "saved", <<2>>)
    /\ state[<<2, 2>>] = NoState
    /\ data[<<2, 2>>] = NoData
    /\ Len(users) = 2
    /\ users[2].full_name = T_AnnaLee
    /\ users[2].birthday = ExpectedBirthday(T_31_12_2000)
    /\ ~users[2].synced_with_pg


\* The ids of the rows a mirror pass fetched.
FetchedIds(f) == {f.unsynced_users[j].id : j \in 1..Len(f.unsynced_users)}

\* Thread t takes the last step of a mirror pass: the flag update and the report.
PassEnds(t) == frame[t].pc = "pg_loop" /\ frame'[t] = Idle

\* C3 (Spec): a mirror pass puts an id on its list of ids to mark exactly when
\* the insert it has just made for that row returned an id (the mirror got one
\* more row, a copy of that row); and a flag goes from FALSE to TRUE only in
\* the last step of a pass and only for an id on that pass's list. So a row
\* whose insert returned None or raised is not marked by that pass.
C3_MarkedOnlyAfterConfirmation ==
    [][/\ \A t \in Threads :
             (frame[t].pc = "pg_loop" /\ frame'[t].pc = "pg_loop") =>
                LET user == frame[t].unsynced_users[frame[t].i]
                    confirmed ==
                       /\ Len(pg') = Len(pg) + 1
                       /\ pg_src'[Len(pg')] = user.id
                       /\ pg'[Len(pg')].card_number = user.card_number
                IN /\ confirmed \/ pg' = pg
                   /\ frame'[t].synced_ids =
                         IF confirmed THEN Append(frame[t].synced_ids, user.id)
                         ELSE frame[t].synced_ids
       /\ \A i \in 1..Len(users) :
             (~users[i].synced_with_pg /\ users'[i].synced_with_pg) =>
                \E t \in Threads :
                   /\ PassEnds(t)
                   /\ users[i].id \in Range(frame[t].synced_ids)]_vars

\* C3 witness: a pass over two rows has ended; the insert of row 1 failed and
\* row 1 is not marked, the insert of row 2 was confirmed and row 2 is marked.
C3_Witness ==
    /\ reply.kind = "pg_report"
    /\ reply.body.success = 1
    /\ reply.body.error = 1
    /\ Len(users) = 2
    /\ ~users[1].synced_with_pg
    /\ users[2].synced_with_pg
    /\ pg_src = <<2>>

\* C4 (Spec): a row whose flag is TRUE keeps its id and its TRUE flag in every
\* step of every handler (form, mirror pass, full and incremental backup).
C4_SyncedStaysSynced ==
    [][\A i \in 1..Len(users) :
          users[i].synced_with_pg =>
             /\ i <= Len(users')
             /\ users'[i].id = users[i].id
             /\ users'[i].synced_with_pg]_vars

\* C4 witness: row 1 was marked by an earlier pass and is still marked at the
\* end of a later pass that marked row 2.
C4_Witness ==
    /\ Len(users) = 2
    /\ users[1].synced_with_pg
    /\ users[2].synced_with_pg
    /\ reply.kind = "pg_report"
    /\ reply.body.total = 1

\* C5 (Spec): a pass that fetched M rows, counted K failed inserts and whose
\* flag update succeeded (or had nothing to update) leaves exactly M - K of the
\* fetched rows marked, namely those on its list, and exactly K unmarked; with
\* K = 0 no row of the store is unmarked afterwards.
C5_PassConvergence ==
    [][\A t \in Threads :
          (PassEnds(t) /\ (frame[t].synced_ids = <<>> \/ users' # users)) =>
             LET M == Len(frame[t].unsynced_users)
                 K == frame[t].error_count
                 marked == {id \in FetchedIds(frame[t]) : users'[id].synced_with_pg}
             IN /\ Cardinality(FetchedIds(frame[t])) = M
                /\ Cardinality(marked) = M - K
                /\ Cardinality(FetchedIds(frame[t]) \ marked) = K
                /\ marked = Range(frame[t].synced_ids)
                /\ K = 0 => \A i \in 1..Len(users') : users'[i].synced_with_pg]_vars

\* C5 witness: a pass over two rows without a failed insert has ended and no
\* row is unmarked.
C5_Witness ==
    /\ reply.kind = "pg_report"
    /\ reply.body.success = 2
    /\ reply.body.error = 0
    /\ Len(users) = 2
    /\ \A i \in 1..2 : users[i].synced_with_pg

C9_NoRowInsertedByTwoPasses ==
    \A t1, t2 \in Threads :
       (t1 # t2 /\ frame[t1].pc = "pg_loop" /\ frame[t2].pc = "pg_loop") =>
          Range(frame[t1].synced_ids) \cap Range(frame[t2].synced_ids) = {}

\* C10 (Spec): the success count of the report of a mirror pass counts only
\* rows that are marked when the pass ends, so that a failed flag update does
\* not show the rows it left unmarked as synchronised.
C10_ReportCountsOnlyMarkedRows ==
    [][\A t \in Threads :
          PassEnds(t) =>
             reply'.body.success =
                Cardinality({id \in FetchedIds(frame[t]) : users'[id].synced_with_pg})]_vars

\* The positions of a handler inside the loop of a pass.
LoopPcs == {"pg_loop", "xl_loop", "bk_loop"}

\* The rows the loop of frame f goes through.
LoopList(f) ==
    IF f.pc = "pg_loop" THEN f.unsynced_users
    ELSE IF f.pc = "xl_loop" THEN f.all_users
    ELSE f.new_users

\* C11 (Spec): in a mirror pass, a full refresh and an incremental merge the
\* rows to insert are in ascending id order, every step of the loop is the
\* attempt for the next row of that order (one more counted result, whatever
\* the results before were; the mirror gets at most a copy of that row, the
\* sheet gets the row with that id), and the pass ends only after as many
\* counted attempts as there are rows: no row is skipped, none is tried twice.
C11_EveryFetchedRowAttemptedOnce ==
    [][\A t \in Threads :
          (frame[t].pc \in LoopPcs /\ frame'[t] # frame[t]) =>
             LET f == frame[t]
                 list == LoopList(f)
             IN /\ \A j \in 1..(Len(list) - 1) : list[j].id < list[j + 1].id
                /\ f.success_count + f.error_count = f.i - 1
                /\ IF frame'[t] = Idle
                   THEN /\ f.i = Len(list) + 1
                        /\ pg' = pg
                        /\ worksheet' = worksheet
                   ELSE /\ f.i <= Len(list)
                        /\ frame'[t].pc = f.pc
                        /\ LoopList(frame'[t]) = list
                        /\ frame'[t].i = f.i + 1
                        /\ frame'[t].success_count + frame'[t].error_count = f.i
                        /\ IF f.pc = "pg_loop"
                           THEN /\ worksheet' = worksheet
                                /\ \/ pg' = pg
                                   \/ /\ Len(pg') = Len(pg) + 1
                                      /\ pg_src' = Append(pg_src, list[f.i].id)
                           ELSE /\ pg' = pg
                                /\ Len(worksheet') = Len(worksheet) + 1
                                /\ worksheet'[Len(worksheet')].id = list[f.i].id]_vars

\* C11 witness: a full refresh over two rows has ended; the insert of row 1
\* failed and row 2 was inserted all the same.
C11_Witness ==
    /\ frame[1] = Idle
    /\ reply.kind = "xl_report"
    /\ reply.body.error = 1
    /\ reply.body.success = 1
    /\ Len(worksheet) = 2
    /\ worksheet[1].full_name = NULL
    /\ worksheet[2].full_name # NULL

\* Thread t ends a full refresh that met no failure: there was nothing to
\* copy, or the sheet was cleared and no add_user failed.
FullSyncEndsClean(t) ==
    \/ \E k \in Keys : SyncExcelClear(t, k, T_sync_excel) /\ reply'.kind = "xl_no_data"
    \/ SyncExcelReport(t) /\ frame[t].error_count = 0

\* Thread t ends an incremental merge that met no failure.
IncrementalSyncEndsClean(t) ==
    \/ \E k \in Keys : SyncBackupFilter(t, k, T_sync_backup) /\ frame'[t] = Idle
    \/ SyncBackupReport(t) /\ frame[t].error_count = 0

\* C12 (SpecBackup): when a full refresh ends without a failure, the data rows
\* of the sheet are the rows of the primary store, in id order, whatever the
\* sheet and the primary store held before (an empty primary store next to a
\* sheet with rows included).
C12_FullRefreshEqualsPrimary ==
    [][\A t \in Threads :
          FullSyncEndsClean(t) =>
             worksheet' = [i \in 1..Len(users') |-> XlRow(users'[i])]]_vars

\* C13 (Spec): the rows an incremental merge sets out to insert are the rows
\* of the primary store whose id is not in column 1 of the sheet, in id order
\* (with none of them it ends at once), and every step of its loop leaves the
\* rows the sheet already has as they are.
C13_IncrementalInsertsMissingPrimaryRows ==
    [][\A t \in Threads :
          /\ \A k \in Keys :
                SyncBackupFilter(t, k, T_sync_backup) =>
                   LET expected == SelectSeq(users, LAMBDA u : u.id \notin GetExistingIds)
                   IN IF expected = <<>>
                      THEN frame'[t] = Idle
                      ELSE /\ frame'[t].pc = "bk_loop"
                           /\ [j \in 1..Len(frame'[t].new_users) |->
                                  XlRow(BackupUserData(frame'[t].new_users[j]))]
                              = [j \in 1..Len(expected) |-> XlRow(expected[j])]
          /\ frame[t].pc = "bk_loop" =>
                /\ Len(worksheet') >= Len(worksheet)
                /\ SubSeq(worksheet', 1, Len(worksheet)) = worksheet]_vars

\* C14 (Spec): when a backup pass of either flavor ends without a failure,
\* every row of the primary store, marked as mirrored or not, has its id in
\* column 1 of the sheet.
C14_BackupIgnoresSyncFlag ==
    [][\A t \in Threads :
          (FullSyncEndsClean(t) \/ IncrementalSyncEndsClean(t)) =>
             \A i \in 1..Len(users') :
                \E r \in 1..Len(worksheet') : worksheet'[r].id = users'[i].id]_vars

\* A record creation of conversation k is in flight: a handle_birthday of k has
\* read the table and has not yet inserted.
CreationInFlight(k) == \E t \in Threads : frame[t].pc = "hb_add" /\ frame[t].key = k

C16_ExceptionEndsConversation ==
    [][\A k \in Keys :
          (\/ \E text \in FormTexts : HandleFullnameRaise(1, k, text)
           \/ \E text \in FormTexts : HandleBirthdayReadRaise(1, k, text)
           \/ frame[1].pc = "hb_add" /\ frame[1].key = k /\ HandleBirthdayAddRaise(1)) =>
             /\ state'[k] = NoState
             /\ data'[k] = NoData]_vars

\* C17 (SpecForm): when the insert at the end of handle_birthday fails (add_user
\* returns None, the table is as before), no row is added, the reply is the
\* failure message and the conversation is over: no state, no stored name.
C17_FailedInsertEndsConversation ==
    [][\A t \in Threads :
          (frame[t].pc = "hb_add" /\ frame'[t] = Idle /\ Len(users') = Len(users)) =>
             /\ users' = users
             /\ reply' = Reply(frame[t].key, "save_failed", <<>>)
             /\ state'[frame[t].key] = NoState
             /\ data'[frame[t].key] = NoData]_vars

\* C17 witness: the first form of conversation <<1, 1>> has ended with the
\* failure message and nothing is stored.
C17_Witness ==
    /\ reply = Reply(<<1, 1>>, "save_failed", <<>>)
    /\ users = <<>>
    /\ state[<<1, 1>>] = NoState
    /\ data[<<1, 1>>] = NoData
    /\ frame[1] = Idle

\* C18 (SpecThreads): an add_user whose card number is the card number of a
\* row of the table fails: the table stays as it is and the reply is the
\* failure message.
C18_DuplicateCardNumberRejected ==
    [][\A t \in Threads :
          (/\ frame[t].pc = "hb_add"
           /\ frame'[t] = Idle
           /\ frame[t].user_data.card_number \in CardNumbers) =>
             /\ users' = users
             /\ reply'.kind = "save_failed"]_vars

\* The positions of s at which a run of non-white-space characters starts.
TokenStarts(s) ==
    {i \in 1..Len(s) : s[i] \notin Whitespace /\ (i = 1 \/ s[i - 1] \in Whitespace)}

\* s from its first to its last non-white-space character.
Trimmed(s) ==
    LET ns == {i \in 1..Len(s) : s[i] \notin Whitespace} IN
    IF ns = {} THEN <<>>
    ELSE SubSeq(s, CHOOSE i \in ns : \A j \in ns : i <= j,
                   CHOOSE i \in ns : \A j \in ns : j <= i)

\* C19 (SpecNames): a text handled as the name of a conversation in
\* ENTER_FULLNAME is accepted (state ENTER_BIRTHDAY, the text without its
\* surrounding white space stored, the prompt for the date sent) if and only if
\* it holds two or more runs of non-white-space characters; otherwise the state
\* and the stored data stay and the reply is the rejection. "Ivan" is
\* rejected; "Ivan Petrov" and "  Ivan   Petrov  " are accepted.
C19_NameRule ==
    [][\A k \in Keys, text \in NameTexts :
          (state[k] = ENTER_FULLNAME /\ HandleFullname(1, k, text)) =>
             /\ IF Cardinality(TokenStarts(text)) >= 2
                THEN /\ state'[k] = ENTER_BIRTHDAY
                     /\ data'[k] = Trimmed(text)
                     /\ reply' = Reply(k, "ask_date", <<>>)
                ELSE /\ state' = state
                     /\ data' = data
                     /\ reply' = Reply(k, "name_invalid", <<>>)
             /\ text = T_Ivan => state'[k] = ENTER_FULLNAME
             /\ text = T_IvanPetrov => state'[k] = ENTER_BIRTHDAY /\ data'[k] = T_IvanPetrov
             /\ text = T_IvanPetrovPadded =>
                   /\ state'[k] = ENTER_BIRTHDAY
                   /\ data'[k] = <<"I", "v", "a", "n", " ", " ", " ",
                                   "P", "e", "t", "r", "o", "v">>
             /\ users' = users]_vars

\* C19 witness: "  Ivan   Petrov  " has been accepted in conversation <<1, 1>>
\* and is stored without its surrounding white space.
C19_Witness ==
    /\ state[<<1, 1>>] = ENTER_BIRTHDAY
    /\ data[<<1, 1>>] = <<"I", "v", "a", "n", " ", " ", " ", "P", "e", "t", "r", "o", "v">>
    /\ reply = Reply(<<1, 1>>, "ask_date", <<>>)

\* The rule for a date text s: the first check that fails, in the order wrong
\* format, impossible calendar date, date after today; else "accepted".
DateVerdict(s) ==
    IF ~MatchDate(s) THEN "date_format"
    ELSE IF ~IsRealDate(YearOf(s), MonthOf(s), DayOf(s)) THEN "date_impossible"
    ELSE IF After(<<YearOf(s), MonthOf(s), DayOf(s)>>, <<Now[1], Now[2], Now[3]>>)
         THEN "date_future"
    ELSE "accepted"

\* The verdicts of the rule, worked out by hand, for the unpadded date texts
\* (today is 01.03.2001).
ExpectedVerdict(text) ==
    IF text \in {T_31_12_2000, T_01_03_2001, T_29_02_2000} THEN "accepted"
    ELSE IF text \in {T_02_03_2001, T_31_12_2999} THEN "date_future"
    ELSE IF text \in {T_29_02_2001, T_29_02_1900, T_31_02_2999, T_32_01_2000,
                      T_00_00_0000}
         THEN "date_impossible"
    ELSE "date_format"

\* What the handling of a date text of conversation k does when the verdict is
\* as given: an accepted date starts the creation of the record; a rejected one
\* leaves the conversation, the table and the handler as they are and is
\* answered with the reply of its verdict.
DateStep(k, verdict) ==
    IF verdict = "accepted"
    THEN /\ frame'[1].pc = "hb_add"
         /\ frame'[1].key = k
         /\ UNCHANGED <<state, data, users>>
    ELSE /\ UNCHANGED <<state, data, users, frame>>
         /\ reply' = Reply(k, verdict, <<>>)

\* C20 as stated (SpecDates): the text itself is put to the rule, so that a
\* date with white space around it is rejected for its format.
C20_DateRuleStrict ==
    [][\A k \in Keys, text \in DateTexts :
          (state[k] = ENTER_BIRTHDAY /\ HandleBirthdayRead(1, k, text)) =>
             DateStep(k, DateVerdict(text))]_vars

\* C20 amended (SpecDates): the text without its surrounding white space is put
\* to the rule: it is accepted if and only if it matches DD.MM.YYYY, is a real
\* calendar date and is not after today (today accepted, tomorrow rejected); a
\* rejected text leaves the conversation in ENTER_BIRTHDAY, creates no record
\* and gets the one reply of the first check it fails, in the order format,
\* calendar, future.
C20_DateRuleTrimmed ==
    [][\A k \in Keys, text \in DateTexts :
          (state[k] = ENTER_BIRTHDAY /\ HandleBirthdayRead(1, k, text)) =>
             /\ DateStep(k, DateVerdict(Trimmed(text)))
             /\ text # T_15_05_1990_Padded => DateStep(k, ExpectedVerdict(text))
             /\ text = T_15_05_1990_Padded => DateStep(k, "accepted")]_vars

\* C20 witness: the padded text " 15.05.1990" has been accepted and its record
\* is in the table.
C20_Witness ==
    /\ Len(users) >= 1
    /\ users[1].birthday = <<"1", "9", "9", "0", "-", "0", "5", "-", "1", "5">>
    /\ reply = Reply(<<1, 1>>, "saved", <<1>>)
    /\ state[<<1, 1>>] = NoState

\* b is a 'YYYY-MM-DD' text of a real calendar date that is not after today.
IsoDateValid(b) ==
    /\ Len(b) = 10
    /\ b[5] = "-" /\ b[8] = "-"
    /\ \A i \in {1, 2, 3, 4, 6, 7, 9, 10} : b[i] \in Digits
    /\ LET date == ParseIso(b) IN
       /\ IsRealDate(date[1], date[2], date[3])
       /\ ~After(date, <<Now[1], Now[2], Now[3]>>)

\* The names that pass the name rule, among the texts of the model without
\* their surrounding white space: those of two or more words (computed once).
ValidNames ==
    {s \in {Trimmed(text) : text \in AllTexts} : Cardinality(TokenStarts(s)) >= 2}

\* 'YYYY-MM-DD' put together from the characters of a text 'DD.MM.YYYY'.
IsoOf(s) == SubSeq(s, 7, 10) \o <<"-">> \o SubSeq(s, 4, 5) \o <<"-">> \o SubSeq(s, 1, 2)

\* The birthdays that pass the date rule, among those the texts of the model
\* can give (computed once).
ValidBirthdays ==
    {b \in {IsoOf(Trimmed(text)) : text \in {t \in AllTexts : Len(Trimmed(t)) = 10}} :
        IsoDateValid(b)}

\* C21, the records (SpecFormErrors): every row of the primary store has a name
\* of two or more words without white space around it and a birthday that is a
\* real date not after today.
C21_RecordsAreComplete ==
    \A i \in 1..Len(users) :
       /\ users[i].full_name \in ValidNames
       /\ users[i].birthday \in ValidBirthdays

\* C21 (SpecFormErrors): no partial record is persisted. The table changes only
\* by one row added at its end by handle_birthday, in a conversation that is in
\* ENTER_BIRTHDAY with a stored name; the row carries that name, the date that
\* passed the three checks, summ 0 and a card number, and the rows are as
\* C21_RecordsAreComplete says. The handling of a message of a conversation that
\* has a state and no stored name adds no row and starts no insert.
C21_NoPartialRecord ==
    [][/\ users' # users =>
             /\ frame[1].pc = "hb_add"
             /\ frame'[1] = Idle
             /\ state[frame[1].key] = ENTER_BIRTHDAY
             /\ data[frame[1].key] # NoData
             /\ Len(users') = Len(users) + 1
             /\ SubSeq(users', 1, Len(users)) = users
             /\ users'[Len(users')] =
                   [id |-> Len(users) + 1,
                    full_name |-> data[frame[1].key],
                    summ |-> 0,
                    card_number |-> frame[1].user_data.card_number,
                    birthday |-> frame[1].user_data.birthday,
                    synced_with_pg |-> FALSE,
                    synced_at |-> NULL]
       /\ (frame[1] = Idle /\ frame'[1] # Idle) =>
             /\ frame'[1].pc = "hb_add"
             /\ state[frame'[1].key] = ENTER_BIRTHDAY
             /\ data[frame'[1].key] # NoData
             /\ frame'[1].user_data.full_name = data[frame'[1].key]
             /\ frame'[1].user_data.birthday \in ValidBirthdays
       /\ \A k \in Keys :
             (state[k] # NoState /\ data[k] = NoData /\ reply'.to = k /\ reply' # reply) =>
                /\ users' = users
                /\ frame' = frame
       /\ C21_RecordsAreComplete']_vars

\* C21 witness: one record has been created, and a message of a conversation in
\* ENTER_FULLNAME with no stored name has been answered (the name was rejected)
\* without a record.
C21_Witness ==
    /\ Len(users) = 1
    /\ state[<<2, 2>>] = ENTER_FULLNAME
    /\ data[<<2, 2>>] = NoData
    /\ reply = Reply(<<2, 2>>, "name_invalid", <<>>)

\* C22 (Spec): a row that a mirror pass adds to the mirror carries the name, the
\* amount, the card number and the birthday of the row of the primary store it
\* was fetched from, under the mirror's own next id (whatever the id of the
\* source row); a row that a full backup adds to the sheet with success carries
\* the id and those four fields of its row of the primary store; a row that an
\* incremental backup adds with success carries the id and those four fields of
\* the row of the mirror it read. A row left by an add_user that failed holds
\* the id and no other value.
C22_FieldsCopiedVerbatim ==
    [][/\ pg' # pg =>
             /\ frame[1].pc = "pg_loop"
             /\ LET source == users[frame[1].unsynced_users[frame[1].i].id]
                    n == Len(pg) + 1
                IN /\ Len(pg') = n
                   /\ SubSeq(pg', 1, Len(pg)) = pg
                   /\ pg'[n].id = n
                   /\ pg'[n].full_name = source.full_name
                   /\ pg'[n].summ = source.summ
                   /\ pg'[n].card_number = source.card_number
                   /\ Strftime(pg'[n].birthday[1], pg'[n].birthday[2], pg'[n].birthday[3])
                         = source.birthday
       /\ Len(worksheet') > Len(worksheet) =>
             /\ frame[1].pc \in {"xl_loop", "bk_loop"}
             /\ Len(worksheet') = Len(worksheet) + 1
             /\ SubSeq(worksheet', 1, Len(worksheet)) = worksheet
             /\ LET row == worksheet'[Len(worksheet')]
                    added == frame'[1].success_count = frame[1].success_count + 1
                IN IF ~added
                   THEN /\ row.full_name = NULL /\ row.summ = NULL
                        /\ row.card_number = NULL /\ row.birthday = NULL
                   ELSE IF frame[1].pc = "xl_loop"
                   THEN LET source == users[frame[1].all_users[frame[1].i].id] IN
                        /\ row.id = source.id
                        /\ row.full_name = source.full_name
                        /\ row.summ = source.summ
                        /\ row.card_number = source.card_number
                        /\ row.birthday = source.birthday
                   ELSE LET source == pg[frame[1].new_users[frame[1].i].id] IN
                        /\ row.id = source.id
                        /\ row.full_name = source.full_name
                        /\ row.summ = source.summ
                        /\ row.card_number = source.card_number
                        /\ ParseIso(row.birthday) = source.birthday]_vars

\* C22 witness: the mirror holds under its id 1 the copy of row 2 of the primary
\* store, with card number 2, and an incremental backup has put that row of
\* the mirror into the sheet.
C22_Witness ==
    /\ pg_src = <<2>>
    /\ pg[1].id = 1
    /\ pg[1].card_number = 2
    /\ reply.kind = "bk_report"
    /\ Len(worksheet) = 1
    /\ worksheet[1].id = 1
    /\ worksheet[1].card_number = 2

\* Thread t takes the last step of stats_command: the third count and the reply.
StatsEnds(t) == frame[t].pc = "stats_unsynced" /\ frame'[t] = Idle

\* The statistics add up: total = synced + unsynced, and the percentage is that
\* of the synced rows rounded to hundredths, 0 for a total of 0.
StatsAddUp(body) ==
    /\ body.total_users = body.synced_users + body.unsynced_users
    /\ body.total_users = 0 => body.sync_percentage = 0
    /\ body.total_users > 0 =>
          /\ 2 * body.total_users * body.sync_percentage
                <= 2 * 10000 * body.synced_users + body.total_users
          /\ 2 * body.total_users * (body.sync_percentage + 1)
                > 2 * 10000 * body.synced_users + body.total_users

\* C23 (SpecStats): the statistics that /stats shows add up, total = synced +
\* unsynced, with the percentage 0 for a total of 0; total is the number of
\* rows the table had at the first count and unsynced the number of rows with
\* the flag FALSE at the last.
C23_StatsAddUp ==
    [][\A t \in Threads :
          StatsEnds(t) =>
             /\ StatsAddUp(reply'.body)
             /\ reply'.body.total_users = frame[t].total_users
             /\ reply'.body.unsynced_users = CountSynced(FALSE)]_vars

\* C24 (SpecRetry): with /sync_pg sent again and again, and the inserts and the
\* flag update succeeding in the end, a state in which some row is unsynced
\* leads to a state in which get_unsynced_users is empty, every row marked; and
\* a flag changes only in the last step of a pass, so that no row is retried or
\* marked unless the command is run.
C24_RerunConverges ==
    /\ (GetUnsyncedUsers # <<>>) ~> (GetUnsyncedUsers = <<>>)
    /\ [][\A i \in 1..Len(users) :
             users'[i].synced_with_pg # users[i].synced_with_pg => PassEnds(1)]_vars

\* C24 witness: the one row is marked after two passes inserted it (the flag
\* update of the first pass failed) and the second pass ended with success.
C24_Witness ==
    /\ Len(users) = 1
    /\ users[1].synced_with_pg
    /\ pg_src = <<1, 1>>
    /\ reply.kind = "pg_report"
    /\ reply.body.success = 1

\* C25 (Spec): while a mirror pass is in its loop it takes the fetched rows one
\* by one, each once, and changes no flag; the flag update comes in the one
\* last step of the pass, when every fetched row has been attempted, and is
\* made for the ids of the rows this pass inserted into the mirror, all of them
\* and no other: after it either all of these rows are marked, or (the update
\* failed, or there was no id) the table is as before.
C25_MarkOnceAfterAllAttempts ==
    [][/\ (frame[1].pc = "pg_loop" /\ frame'[1].pc = "pg_loop") =>
             /\ users' = users
             /\ frame[1].i <= Len(frame[1].unsynced_users)
             /\ frame'[1].i = frame[1].i + 1
             /\ frame'[1].unsynced_users = frame[1].unsynced_users
       /\ users' # users /\ Len(users') = Len(users) => PassEnds(1)
       /\ PassEnds(1) =>
             LET f == frame[1]
                 n == Len(f.synced_ids)
                 inserted == SubSeq(pg_src, Len(pg_src) - n + 1, Len(pg_src))
             IN /\ f.i = Len(f.unsynced_users) + 1
                /\ f.success_count + f.error_count = Len(f.unsynced_users)
                /\ f.synced_ids = inserted
                /\ Cardinality(Range(f.synced_ids)) = n
                /\ Range(f.synced_ids) \subseteq FetchedIds(f)
                /\ \/ users' = users
                   \/ \A j \in 1..Len(users) :
                         /\ users'[j].id = users[j].id
                         /\ users'[j].synced_with_pg =
                               (users[j].synced_with_pg \/ users[j].id \in Range(f.synced_ids))]_vars

\* C25 witness: a pass has attempted both rows it fetched, both inserts
\* succeeded, and no row is marked yet.
C25_Witness ==
    /\ frame[1].pc = "pg_loop"
    /\ Len(frame[1].unsynced_users) = 2
    /\ frame[1].i = 3
    /\ frame[1].synced_ids = <<1, 2>>
    /\ \A j \in 1..Len(users) : ~users[j].synced_with_pg

\* C26 (SpecMark): a call of mark_users_synced that returns True leaves every
\* row with an id of the list marked and stamped, its other fields as they
\* were, and every other row as it was; with an empty list it returns True and
\* changes nothing; a call that returns False (the write failed) changes
\* nothing, so that none of the ids is marked by it. No row is added or
\* removed, and the mirror and the backup are not touched.
C26_MarkSyncedFrame ==
    [][\A user_ids \in MarkIds :
          MarkUsersSyncedCall(user_ids) =>
             /\ user_ids = {} => reply'.body.result /\ users' = users
             /\ ~reply'.body.result => users' = users
             /\ Len(users') = Len(users)
             /\ reply'.body.result =>
                   \A j \in 1..Len(users) :
                      IF users[j].id \in user_ids
                      THEN users'[j] = [id |-> users[j].id,
                                        full_name |-> users[j].full_name,
                                        summ |-> users[j].summ,
                                        card_number |-> users[j].card_number,
                                        birthday |-> users[j].birthday,
                                        synced_with_pg |-> TRUE,
                                        synced_at |-> "CURRENT_TIMESTAMP"]
                      ELSE users'[j] = users[j]
             /\ UNCHANGED <<pg, pg_src, worksheet, file>>]_vars

\* C26 witness: mark_users_synced([2]) has returned True on a table of two
\* rows; row 2 is marked and row 1 is not.
C26_Witness ==
    /\ reply.kind = "mark_users_synced"
    /\ reply.body.user_ids = {2}
    /\ reply.body.result
    /\ Len(users) = 2
    /\ ~users[1].synced_with_pg /\ users[1].synced_at = NULL
    /\ users[2].synced_with_pg

\* C27 (Spec): in the report of a mirror pass success + error = total = the
\* number of rows fetched, and the pending count = fetched - success = error;
\* when the flag update succeeded (or no insert succeeded, so that there was
\* nothing to update) the pending count is the number of fetched rows that
\* are unsynced after the pass.
C27_ReportArithmetic ==
    [][PassEnds(1) =>
          LET fetched == Len(frame[1].unsynced_users)
              body == reply'.body
          IN /\ reply'.kind = "pg_report"
             /\ body.success + body.error = body.total
             /\ body.total = fetched
             /\ body.pending = fetched - body.success
             /\ body.pending = body.error
             /\ (frame[1].synced_ids = <<>> \/ users' # users) =>
                   body.pending =
                      Cardinality({id \in FetchedIds(frame[1]) :
                                      ~users'[id].synced_with_pg})]_vars

\* C27 witness: a pass over two rows has reported one success, one error and
\* one row pending; row 1 is marked and row 2 is not.
C27_Witness ==
    /\ reply.kind = "pg_report"
    /\ reply.body.total = 2
    /\ reply.body.success = 1
    /\ reply.body.pending = 1
    /\ Len(users) = 2
    /\ users[1].synced_with_pg
    /\ ~users[2].synced_with_pg
    /\ pg_src = <<1>>

\* Thread t takes the last step of an incremental backup: the report.
BackupEnds(t) == frame[t].pc = "bk_loop" /\ frame'[t] = Idle

\* C28 (Spec): in the report of an incremental backup skipped + added + failed
\* is the number of rows read from the source, and the total it reports for
\* the sheet is the number of data rows the sheet holds after the pass.
C28_IncrementalReport ==
    [][BackupEnds(1) =>
          /\ reply'.kind = "bk_report"
          /\ reply'.body.skipped + reply'.body.added + reply'.body.error
                = Len(DbGetAllUsers)
          /\ reply'.body.in_excel = Len(worksheet')]_vars

\* The rows of s are in strictly ascending order of id.
AscendingIds(s) == \A i, j \in 1..Len(s) : i < j => s[i].id < s[j].id

C30_NothingToSync ==
    [][\A k \in Keys :
          (/\ \A i \in 1..Len(users) : users[i].synced_with_pg
           /\ SyncPgFetch(1, k, T_sync_pg)) =>
             /\ reply' = Reply(k, "pg_nothing", <<>>)
             /\ frame' = frame
             /\ UNCHANGED <<users, pg, pg_src, worksheet, file>>]_vars

\* C30 witness: /sync_pg has been answered that all is synced, the table
\* holding two rows, both marked and both in the mirror.
C30_Witness ==
    /\ reply.kind = "pg_nothing"
    /\ frame[1] = Idle
    /\ Len(users) = 2
    /\ \A i \in 1..2 : users[i].synced_with_pg
    /\ Len(pg) = 2

\* The texts of the model that hold fewer than two words (computed once).
InvalidNameTexts == {text \in AllTexts : Cardinality(TokenStarts(text)) < 2}

\* C31 (SpecNames): a text of fewer than two words handled in ENTER_FULLNAME is
\* answered with the rejection and changes nothing else: the conversation
\* stays in ENTER_FULLNAME, its stored name and every store are as before, and
\* nothing counts the attempt. So in every state, whatever was rejected before,
\* a conversation in ENTER_FULLNAME can have a valid name handled, and that
\* name is stored and leads to ENTER_BIRTHDAY.
C31_InvalidNameSelfLoop ==
    /\ [][\A k \in Keys, text \in NameTexts \cap InvalidNameTexts :
             (state[k] = ENTER_FULLNAME /\ reply'.to = k /\ HandleFullname(1, k, text)) =>
                /\ reply' = Reply(k, "name_invalid", <<>>)
                /\ UNCHANGED <<state, data, frame, users, pg, worksheet, file>>]_vars
    /\ [](\A k \in Keys :
             (state[k] = ENTER_FULLNAME /\ frame[1] = Idle) =>
                ENABLED (/\ HandleFullname(1, k, T_IvanPetrov)
                         /\ state'[k] = ENTER_BIRTHDAY
                         /\ data'[k] = T_IvanPetrov))

\* C31 witness: conversation <<1, 1>> is in ENTER_FULLNAME with no name stored,
\* its last text rejected, while conversation <<2, 2>> has gone on to
\* ENTER_BIRTHDAY.
C31_Witness ==
    /\ state[<<1, 1>>] = ENTER_FULLNAME
    /\ data[<<1, 1>>] = NoData
    /\ reply = Reply(<<1, 1>>, "name_invalid", <<>>)
    /\ state[<<2, 2>>] = ENTER_BIRTHDAY
    /\ users = <<>>

\* C32 (SpecForm): /form handled for a conversation that is in ENTER_FULLNAME or
\* ENTER_BIRTHDAY puts it in ENTER_FULLNAME, asks for the name and adds no
\* record. From ENTER_FULLNAME the only way to ENTER_BIRTHDAY is a valid name,
\* and the name stored then is the name of that message whatever name the
\* storage held before; in ENTER_BIRTHDAY the stored name stays; and a record
\* is added only by the insert of a conversation in ENTER_BIRTHDAY, with the
\* name stored for it. So the record made after a restart carries the name
\* given after the restart.
C32_RestartCarriesNothingOver ==
    [][\A k \in Keys :
          /\ \A text \in FormTexts :
                (state[k] \in {ENTER_FULLNAME, ENTER_BIRTHDAY} /\ FormCommand(1, k, text)) =>
                   /\ state'[k] = ENTER_FULLNAME
                   /\ reply' = Reply(k, "ask_name", <<>>)
                   /\ users' = users
                   /\ frame' = frame
          /\ \A text \in {T_IvanPetrov, T_AnnaLee} :
                (state[k] = ENTER_FULLNAME /\ HandleFullname(1, k, text)) =>
                   /\ state'[k] = ENTER_BIRTHDAY
                   /\ data'[k] = text
          /\ (state[k] = ENTER_FULLNAME /\ state'[k] = ENTER_BIRTHDAY) =>
                \E text \in {T_IvanPetrov, T_AnnaLee} : HandleFullname(1, k, text)
          /\ (state[k] = ENTER_BIRTHDAY /\ state'[k] = ENTER_BIRTHDAY) =>
                data'[k] = data[k]
          /\ (state[k] = NoState /\ state'[k] # NoState) =>
                state'[k] = ENTER_FULLNAME /\ data'[k] = NoData
          /\ (Len(users') > Len(users) /\ frame[1].key = k) =>
                /\ frame[1].pc = "hb_add"
                /\ state[k] = ENTER_BIRTHDAY
                /\ users'[Len(users')].full_name = data[k]]_vars

\* C32 witness: conversation <<1, 1>> has been restarted after its name
\* "Ivan Petrov" was accepted: it is in ENTER_FULLNAME, asked for the name again,
\* and no record exists.
C32_Witness ==
    /\ state[<<1, 1>>] = ENTER_FULLNAME
    /\ data[<<1, 1>>] = T_IvanPetrov
    /\ reply = Reply(<<1, 1>>, "ask_name", <<>>)
    /\ users = <<>>
    /\ frame[1] = Idle

C34_PassTerminates ==
    (frame[1].pc \in {"pg_loop", "pg_wait"}) ~>
        (frame[1] = Idle /\ reply.kind = "pg_report")

\* How many times the row of id x of the primary store has been inserted into
\* the mirror.
TimesInserted(x) == Cardinality({i \in 1..Len(pg_src) : pg_src[i] = x})

\* The ids of the rows that an earlier pass inserted into the mirror and left
\* unmarked, its flag update having failed.
LeftUnmarked ==
    {x \in Range(pg_src) :
        /\ ~users[x].synced_with_pg
        /\ frame[1].pc = "pg_loop" => x \notin Range(frame[1].synced_ids)}

\* C35 (SpecPasses): with passes one after the other, a row whose flag updates
\* all succeed (every row but that of id 1) is inserted into the mirror at
\* most once; an insert of a row that the mirror holds already is made only
\* for a row that an earlier pass inserted and left unmarked; and such a row is
\* fetched again by the next pass, so that it is inserted once more.
C35_InsertedOnceUnlessMarkFailed ==
    /\ [](\A x \in 1..Len(users) : x # 1 => TimesInserted(x) <= 1)
    /\ [][\A x \in 1..Len(users) :
             pg_src' = Append(pg_src, x) =>
                (x \in Range(pg_src) <=> x \in LeftUnmarked)]_vars
    /\ [](\A x \in LeftUnmarked :
             (frame[1] = Idle /\ state[<<1, 1>>] = NoState) =>
                ENABLED (/\ SyncPgFetch(1, <<1, 1>>, T_sync_pg)
                         /\ frame'[1].pc = "pg_loop"
                         /\ \E i \in 1..Len(frame'[1].unsynced_users) :
                               frame'[1].unsynced_users[i].id = x))

\* C35 witness: the row of id 1 is in the mirror twice, the flag update of the
\* pass that inserted it first having failed, and is marked now; the row of
\* id 2 has not been inserted.
C35_Witness ==
    /\ Len(users) = 2
    /\ pg_src = <<1, 1>>
    /\ users[1].synced_with_pg
    /\ ~users[2].synced_with_pg
    /\ frame[1] = Idle

\* C36 (Spec): whenever no pass is running, no two complete data rows of the
\* sheet carry the same card number, and every data row has in its first
\* column the id of a row of the primary store and, when it is complete, the
\* card number and the name of that row.
C36_BackupRowsDenotePrimaryRecords ==
    frame[1] = Idle =>
       /\ \A r, q \in 1..Len(worksheet) :
             (r # q /\ worksheet[r].full_name # NULL /\ worksheet[q].full_name # NULL) =>
                worksheet[r].card_number # worksheet[q].card_number
       /\ \A r \in 1..Len(worksheet) :
             /\ worksheet[r].id \in 1..Len(users)
             /\ worksheet[r].full_name # NULL =>
                   /\ users[worksheet[r].id].card_number = worksheet[r].card_number
                   /\ users[worksheet[r].id].full_name = worksheet[r].full_name

\* The commands of DispatchTexts other than /start and /form.
OtherCommands ==
    {T_cancel, T_stats, T_sync_pg, T_sync_excel, T_clear_backup, T_sync_backup, T_help}

RecordOf(u) ==
    [id |-> u.id, full_name |-> u.full_name, summ |-> u.summ,
     card_number |-> u.card_number, birthday |-> u.birthday]

\* A step of a backup command (/sync_excel, /sync_backup, /clear_backup): the
\* handler is in, or enters, the loop of a backup pass, or the step sends one
\* of the replies of these commands.
BackupStep ==
    \/ frame[1].pc \in {"xl_loop", "bk_loop"}
    \/ frame'[1].pc \in {"xl_loop", "bk_loop"}
    \/ reply'.kind \in {"xl_no_data", "xl_clear_failed", "xl_report",
                        "bk_no_users", "bk_all_exist", "bk_report",
                        "cleared", "clear_failed", "clear_already_empty"}

\* C38 (Spec): every step of the form handlers leaves the mirror and the sheet
\* (in memory and on disk) as they are; every step of a mirror pass leaves the
\* sheet as it is and the rows of the primary store as they are but for their
\* two mirror-sync columns, none added, none removed; every step of a full or
\* incremental backup, and of /clear_backup, leaves the primary store, flags
\* included, and the mirror as they are.
C38_StoresDecoupled ==
    [][/\ ((\E text \in Texts : \/ FormCommand(1, <<1, 1>>, text)
                                \/ HandleFullname(1, <<1, 1>>, text)
                                \/ HandleBirthdayRead(1, <<1, 1>>, text))
             \/ HandleBirthdayAdd(1)) =>
             /\ UNCHANGED <<pg, pg_src, worksheet, file>>
             /\ Len(users') \in {Len(users), Len(users) + 1}
             /\ SubSeq(users', 1, Len(users)) = users
       /\ ((\E text \in Texts : SyncPgFetch(1, <<1, 1>>, text))
             \/ SyncPgInsert(1) \/ SyncPgFinish(1)) =>
             /\ UNCHANGED <<worksheet, file>>
             /\ Len(users') = Len(users)
             /\ \A i \in 1..Len(users) : RecordOf(users'[i]) = RecordOf(users[i])
       /\ BackupStep => UNCHANGED <<users, pg, pg_src>>]_vars

\* C38 witness: the three stores differ after a form, a mirror pass, a second
\* form and a full backup: two rows in the table, the first marked, one row in
\* the mirror, two rows in the sheet.
C38_Witness ==
    /\ Len(users) = 2
    /\ users[1].synced_with_pg
    /\ ~users[2].synced_with_pg
    /\ Len(pg) = 1
    /\ Len(worksheet) = 2
    /\ worksheet[2].full_name # NULL
    /\ reply.kind = "xl_report"
    /\ frame[1] = Idle

\* One call of excel_manager.add_user in the loop of a backup pass that wrote
\* all five cells of its row.
CompleteRowAdded ==
    /\ frame[1].pc \in {"xl_loop", "bk_loop"}
    /\ Len(worksheet') = Len(worksheet) + 1
    /\ worksheet'[Len(worksheet')].full_name # NULL

\* C39 (SpecDisk): an add_user call that is counted as a success has its row in
\* the backup file; and when the save of the file fails, the call is counted as
\* an error and the id of its row is not among those get_existing_ids returns
\* afterwards.
C39_SuccessOnlyWhenSaved ==
    [][CompleteRowAdded =>
          /\ frame'[1].success_count = frame[1].success_count + 1 =>
                /\ file' = worksheet'
          /\ file' # worksheet' =>
                /\ frame'[1].error_count = frame[1].error_count + 1
                /\ worksheet'[Len(worksheet')].id \notin GetExistingIds']_vars

====
